---- MODULE Spec2Model ----
(***************************************************************************)
(* Options roll monitor: the quote cache (greeks_cache.py), the quote      *)
(* fetcher (market_data.py), the expiry selector and the roll finder       *)
(* (options_finder.py) and the batch loop of the live monitor              *)
(* (roll_monitor_live.py).                                                 *)
(*                                                                         *)
(* Units.  Time is in seconds.  Expiries are the YYYYMMDD strings of the   *)
(* code; a calendar date is a day number counted from 2026-01-01, and      *)
(* Strptime maps the strings to it.  Prices are in half dollars, deltas in *)
(* hundredths.  A Python value that may be None or a float NaN is a record *)
(* [k |-> "none"], [k |-> "nan"] or [k |-> "num", v |-> n].                *)
(***************************************************************************)
EXTENDS Integers, Sequences, FiniteSets, TLC

VARIABLES
    now,            \* datetime.now() / time.time(), in seconds
    global_cache,   \* greeks_cache._global_cache: None or a GreeksCache object
    putAt,          \* history: per key, the time of the put that stored its last value
    lastGet,        \* history: the last GreeksCache.get, its key, return value and tally
    lastOp,         \* history: the operation that ran last
    today,          \* datetime.now(timezone.utc).date(), a day number
    ret,            \* the value the last fetch or evaluation returned
    ibLog,          \* the provider calls the last fetch or evaluation made, in order
    fetched,        \* history: per identity, the quote last fetched from the provider
                    \* with caching enabled, and when
    callLog,        \* the calls of the fetch functions the last evaluation made, in order
    batch,          \* run_single_check: its position in the pass, the positions, the
                    \* counters and the roll opportunities collected
    threads,        \* the threads that call the cache: per thread its position in
                    \* GreeksCache.get and the counter value it has read
    heap,           \* the dict objects of the callers and of the cache, by reference
    monitor,        \* main(): its position in the polling loop and the connections
                    \* it has opened
    alarm           \* process_position: the SIGALRM timer and the position of the
                    \* analysis it guards

cacheVars == <<global_cache, putAt, lastGet>>

fetchVars == <<today, ret, ibLog, fetched>>

rollVars == <<callLog>>

batchVars == <<batch>>

threadVars == <<threads>>

procVars == <<heap, monitor, alarm>>

vars ==
    <<now, global_cache, putAt, lastGet, lastOp, today, ret, ibLog, fetched, callLog, batch,
      threads, heap, monitor, alarm>>

----------------------------------------------------------------------------
(* Python values *)

None == [k |-> "none"]

NaN == [k |-> "nan"]

Num(n) == [k |-> "num", v |-> n]

IsNone(x) == x.k = "none"

IsNaN(x) == x.k = "nan"

IsNum(x) == x.k = "num"

Str(x) == [k |-> "str", v |-> x]

\* A dict is a function on the set of its keys; {} is the empty function.
EmptyDict == << >>

DictSet(d, key, value) ==
    [x \in (DOMAIN d) \cup {key} |-> IF x = key THEN value ELSE d[x]]

DictDel(d, keys) == [x \in (DOMAIN d) \ keys |-> d[x]]

----------------------------------------------------------------------------
(* Bounds of the model *)

MaxTime == 80

TickStep == 40

MaxRequests == 3

MaxToday == 1

(* Program constants *)

OptionCacheTtl == 60

StockCacheTtl == 30

DteWindowLow == 30

DteWindowHigh == 60

RollForwardDays == 7

ExpiryTimeout == 30

MaxTotalTime == 180

MaxDuration == 60

DeltaTolerance == 5

TargetGoodOptions == 8

MaxSample == 10

TopN == 12

\* Prices and strikes are counted in half dollars.
Dollar == 2

----------------------------------------------------------------------------
(* The identities of the model *)

Symbols == {"XYZ"}

\* The YYYYMMDD strings of the model with their day numbers from 2026-01-01.
Calendar ==
    {<<"20260101", 0>>, <<"20260102", 1>>, <<"20260103", 2>>,
     <<"20260111", 10>>, <<"20260115", 14>>,
     <<"20260121", 20>>, <<"20260131", 30>>, <<"20260205", 35>>, <<"20260210", 40>>,
     <<"20260228", 58>>, <<"20260302", 60>>, <<"20260312", 70>>}

DateStrings == {c[1] : c \in Calendar}

\* datetime.strptime(yyyymmdd, "%Y%m%d"), as a day number
Strptime(yyyymmdd) == (CHOOSE c \in Calendar : c[1] = yyyymmdd)[2]

Strikes == {200, 201, 210, 220}

Rights == {"C", "P"}

----------------------------------------------------------------------------
(* utils.py *)

FALLBACK_EXCHANGES == <<"SMART", "CBOE">>

\* dte(yyyymmdd): (dt - datetime.now(timezone.utc).date()).days
dte(yyyymmdd, utcToday) == Strptime(yyyymmdd) - utcToday

----------------------------------------------------------------------------
(* greeks_cache.py: GreeksCache *)

ZeroStats == [hits |-> 0, misses |-> 0, expired |-> 0, total_requests |-> 0]

\* _make_key: f"{symbol}_{expiry}_{strike}_{right}".  On the identities of the
\* model (symbols without "_", numeric expiry and strike) the string is one to
\* one with the tuple of its fields.
MakeKey(symbol, expiry, strike, right) == <<symbol, expiry, strike, right>>

\* GreeksCache.__init__
NewGreeksCache(ttl) ==
    [k |-> "GreeksCache",
     ttl_seconds |-> ttl,
     cache |-> EmptyDict,
     stats |-> ZeroStats]

\* The TTL read as minutes.
IsExpiredMutant(self, entry, t) == (t - entry.timestamp) > self.ttl_seconds * 60

\* age.total_seconds() > self.ttl_seconds

IsExpired(self, entry, t) == (t - entry.timestamp) > self.ttl_seconds

\* A get that leaves an expired entry in the map.
GreeksCacheGetMutant(self, t, key) ==
    LET counted == [self.stats EXCEPT !.total_requests = @ + 1]
    IN  IF key \notin DOMAIN self.cache
        THEN [self |-> [self EXCEPT !.stats = [counted EXCEPT !.misses = @ + 1]],
              ret |-> None, tally |-> "misses"]
        ELSE IF (t - self.cache[key].timestamp) > self.ttl_seconds
        THEN [self |-> [self EXCEPT !.stats = [counted EXCEPT !.expired = @ + 1]],
              ret |-> None, tally |-> "expired"]
        ELSE [self |-> [self EXCEPT !.stats = [counted EXCEPT !.hits = @ + 1]],
              ret |-> self.cache[key].data, tally |-> "hits"]

\* A get that pops the entry it returns.
GreeksCacheGetPopMutant(self, t, key) ==
    LET r == GreeksCacheGetMutant(self, t, key)
    IN  IF r.tally \in {"hits", "expired"}
        THEN [r EXCEPT !.self.cache = DictDel(self.cache, {key})]
        ELSE r

\* GreeksCache.get: the object after the call, the value returned and the
\* counter the call tallied.
GreeksCacheGet(self, t, key) ==
    LET counted == [self.stats EXCEPT !.total_requests = @ + 1]
    IN  IF key \notin DOMAIN self.cache
        THEN [self |-> [self EXCEPT !.stats = [counted EXCEPT !.misses = @ + 1]],
              ret |-> None, tally |-> "misses"]
        ELSE IF IsExpired(self, self.cache[key], t)
        THEN [self |-> [self EXCEPT !.cache = DictDel(self.cache, {key}),
                                    !.stats = [counted EXCEPT !.expired = @ + 1]],
              ret |-> None, tally |-> "expired"]
        ELSE [self |-> [self EXCEPT !.stats = [counted EXCEPT !.hits = @ + 1]],
              ret |-> self.cache[key].data, tally |-> "hits"]

\* GreeksCache.put
GreeksCachePut(self, t, key, data) ==
    [self EXCEPT !.cache = DictSet(self.cache, key, [data |-> data, timestamp |-> t])]

\* GreeksCache.clear
GreeksCacheClear(self) ==
    [self EXCEPT !.cache = EmptyDict]

\* A sweep that tallies the entries it removes as 'expired'.
GreeksCacheClearExpiredMutant(self, t) ==
    LET expired_keys == {key \in DOMAIN self.cache : IsExpired(self, self.cache[key], t)}
    IN  [self EXCEPT !.cache = DictDel(self.cache, expired_keys),
                     !.stats.expired = @ + Cardinality(expired_keys)]

\* GreeksCache.clear_expired
GreeksCacheClearExpired(self, t) ==
    LET expired_keys == {key \in DOMAIN self.cache : IsExpired(self, self.cache[key], t)}
    IN  [self EXCEPT !.cache = DictDel(self.cache, expired_keys)]

\* GreeksCache.reset_stats
GreeksCacheResetStats(self) == [self EXCEPT !.stats = ZeroStats]

\* get_cache(ttl_seconds): the global object after the call, which is also the
\* object returned.  ttl_seconds is only used when the object is created.
GetCache(g, ttl_seconds) == IF IsNone(g) THEN NewGreeksCache(ttl_seconds) ELSE g

----------------------------------------------------------------------------
(* market_data.py *)

Gt0(x) == IsNum(x) /\ x.v > 0

\* safe_mark without the test that the bid is positive in the midpoint.
safe_markMutant(tk) ==
    IF IsNum(tk.bid) /\ IsNum(tk.ask) /\ tk.bid.v <= tk.ask.v
    THEN Num((tk.bid.v + tk.ask.v) \div 2)
    ELSE IF Gt0(tk.bid) THEN tk.bid
    ELSE IF Gt0(tk.ask) THEN tk.ask
    ELSE IF Gt0(tk.last) THEN tk.last
    ELSE IF Gt0(tk.close) THEN tk.close
    ELSE None

\* safe_mark(tk): a number, or None.  A comparison with NaN is false.
safe_mark(tk) ==
    IF IsNum(tk.bid) /\ IsNum(tk.ask) /\ 0 < tk.bid.v /\ tk.bid.v <= tk.ask.v
    THEN Num((tk.bid.v + tk.ask.v) \div 2)
    ELSE IF Gt0(tk.bid) THEN tk.bid
    ELSE IF Gt0(tk.ask) THEN tk.ask
    ELSE IF Gt0(tk.last) THEN tk.last
    ELSE IF Gt0(tk.close) THEN tk.close
    ELSE None

\* One provider call, as logged: the call, the venue, whether it raised.
Call(op, ex, raised) == [op |-> op, ex |-> ex, raised |-> raised]

\* The cleanup of the finally clause: cancelMktData if a ticker was obtained,
\* whatever it raises being swallowed.
FinallyCancel(ex, o) == << Call("cancelMktData", ex, o.cancel_raises) >>

\* get_option_quote, the dict built from a ticker with a usable mark
QuoteData(tk, mark, expiry, strike, utcToday) ==
    [k |-> "dict", strike |-> strike, expiry |-> expiry, bid |-> tk.bid, ask |-> tk.ask,
     mark |-> mark.v,
     delta |-> IF IsNone(tk.modelGreeks) THEN None ELSE tk.modelGreeks.delta,
     dte |-> dte(expiry, utcToday)]

\* A cleanup that is left out when no mark was obtained.
AttemptVenueMutant(ex, o, expiry, strike, utcToday) ==
    LET q == Call("qualifyContracts", ex, o.kind = "qualify_error")
        r == Call("reqMktData", ex, o.kind = "req_error")
    IN  IF o.kind = "qualify_error" THEN [ret |-> None, calls |-> << q >>]
        ELSE IF o.kind = "req_error" THEN [ret |-> None, calls |-> << q, r >>]
        ELSE IF o.kind = "sleep_error"
        THEN [ret |-> None, calls |-> << q, r >> \o FinallyCancel(ex, o)]
        ELSE LET mark == safe_mark(o.tk)
             IN  IF IsNone(mark)
                 THEN [ret |-> None, calls |-> << q, r >>]
                 ELSE IF o.cancel_raises
                 THEN [ret |-> None,
                       calls |-> << q, r, Call("cancelMktData", ex, TRUE) >>
                                 \o FinallyCancel(ex, o)]
                 ELSE [ret |-> QuoteData(o.tk, mark, expiry, strike, utcToday),
                       calls |-> << q, r, Call("cancelMktData", ex, FALSE) >>
                                 \o FinallyCancel(ex, o)]

\* get_option_quote, the body of the loop for one venue: the quote returned
\* (None to go on with the next venue) and the provider calls made.
\* o is what the provider does at this venue: o.kind is "qualify_error",
\* "req_error" (reqMktData raises), "sleep_error" (an exception once the
\* subscription is open) or "ticker" with the ticker o.tk; o.cancel_raises
\* says whether cancelMktData raises.
AttemptVenue(ex, o, expiry, strike, utcToday) ==
    LET q == Call("qualifyContracts", ex, o.kind = "qualify_error")
        r == Call("reqMktData", ex, o.kind = "req_error")
    IN  IF o.kind = "qualify_error" THEN [ret |-> None, calls |-> << q >>]
        ELSE IF o.kind = "req_error" THEN [ret |-> None, calls |-> << q, r >>]
        ELSE IF o.kind = "sleep_error"
        THEN [ret |-> None, calls |-> << q, r >> \o FinallyCancel(ex, o)]
        ELSE LET mark == safe_mark(o.tk)
             IN  IF IsNone(mark)
                 THEN [ret |-> None, calls |-> << q, r >> \o FinallyCancel(ex, o)]
                 ELSE IF o.cancel_raises
                 THEN \* cancelMktData raises before the return: except, continue
                      [ret |-> None,
                       calls |-> << q, r, Call("cancelMktData", ex, TRUE) >>
                                 \o FinallyCancel(ex, o)]
                 ELSE [ret |-> QuoteData(o.tk, mark, expiry, strike, utcToday),
                       calls |-> << q, r, Call("cancelMktData", ex, FALSE) >>
                                 \o FinallyCancel(ex, o)]

RECURSIVE FetchOption(_, _, _, _, _)

\* The venue order reversed.
FetchOptionMutant(i, outcomes, expiry, strike, utcToday) ==
    LET n == Len(FALLBACK_EXCHANGES)
        a == AttemptVenue(FALLBACK_EXCHANGES[n], outcomes[n], expiry, strike, utcToday)
        b == AttemptVenue(FALLBACK_EXCHANGES[1], outcomes[1], expiry, strike, utcToday)
    IN  IF ~IsNone(a.ret) THEN a ELSE [ret |-> b.ret, calls |-> a.calls \o b.calls]

\* get_option_quote, "for ex in FALLBACK_EXCHANGES" from the i-th venue on
FetchOption(i, outcomes, expiry, strike, utcToday) ==
    IF i > Len(FALLBACK_EXCHANGES) THEN [ret |-> None, calls |-> << >>]
    ELSE LET a == AttemptVenue(FALLBACK_EXCHANGES[i], outcomes[i], expiry, strike, utcToday)
         IN  IF ~IsNone(a.ret) THEN a
             ELSE LET rest == FetchOption(i + 1, outcomes, expiry, strike, utcToday)
                  IN  [ret |-> rest.ret, calls |-> a.calls \o rest.calls]

\* The cache is looked up and its result ignored.
GetOptionQuoteMutant(g, t, utcToday, symbol, expiry, strike, right, use_cache, cache_ttl, outcomes) ==
    LET key == MakeKey(symbol, expiry, strike, right)
        cache == IF use_cache THEN GetCache(g, cache_ttl) ELSE g
        looked == GreeksCacheGet(cache, t, key)
        f == FetchOption(1, outcomes, expiry, strike, utcToday)
        after == IF use_cache THEN looked.self ELSE g
    IN  [ret |-> f.ret, calls |-> f.calls,
         from |-> IF IsNone(f.ret) THEN "none" ELSE "provider",
         global_cache |-> IF use_cache /\ ~IsNone(f.ret)
                          THEN GreeksCachePut(after, t, key, f.ret) ELSE after]

\* get_option_quote: the value returned, the provider calls made, where the
\* value came from, and the global cache after the call.
GetOptionQuote(g, t, utcToday, symbol, expiry, strike, right, use_cache, cache_ttl, outcomes) ==
    LET key == MakeKey(symbol, expiry, strike, right)
        cache == IF use_cache THEN GetCache(g, cache_ttl) ELSE g
        looked == GreeksCacheGet(cache, t, key)
    IN  IF use_cache /\ ~IsNone(looked.ret)
        THEN [ret |-> looked.ret, calls |-> << >>, from |-> "cache",
              global_cache |-> looked.self]
        ELSE LET f == FetchOption(1, outcomes, expiry, strike, utcToday)
                 after == IF use_cache THEN looked.self ELSE g
             IN  [ret |-> f.ret, calls |-> f.calls,
                  from |-> IF IsNone(f.ret) THEN "none" ELSE "provider",
                  global_cache |-> IF use_cache /\ ~IsNone(f.ret)
                                   THEN GreeksCachePut(after, t, key, f.ret) ELSE after]

\* get_stock_price, the primary exchanges tried in order
STOCK_EXCHANGES == <<"NASDAQ", "NYSE", "SMART">>

\* get_stock_price, one try block: the price obtained (None otherwise), whether
\* the block raised, and the provider calls made.
AttemptStock(ex, o) ==
    LET q == Call("qualifyContracts", ex, o.kind = "qualify_error")
        r == Call("reqMktData", ex, o.kind = "req_error")
        c == Call("cancelMktData", ex, o.cancel_raises)
    IN  IF o.kind = "qualify_error" THEN [price |-> None, raised |-> TRUE, calls |-> << q >>]
        ELSE IF o.kind = "req_error" THEN [price |-> None, raised |-> TRUE, calls |-> << q, r >>]
        ELSE IF o.kind = "sleep_error"
        THEN [price |-> None, raised |-> TRUE, calls |-> << q, r, c >>]
        ELSE IF o.cancel_raises
        THEN [price |-> None, raised |-> TRUE, calls |-> << q, r, c, c >>]
        ELSE [price |-> safe_mark(o.tk), raised |-> FALSE, calls |-> << q, r, c >>]

RECURSIVE FetchStock(_, _)

\* get_stock_price after a cache miss: the loop over the primary exchanges
\* from the i-th on, then the request without primaryExchange.
FetchStock(i, outcomes) ==
    IF i > Len(STOCK_EXCHANGES)
    THEN LET a == AttemptStock("", outcomes[i])
         IN  [price |-> a.price, calls |-> a.calls]
    ELSE LET a == AttemptStock(STOCK_EXCHANGES[i], outcomes[i])
         IN  IF ~a.raised /\ Gt0(a.price)
             THEN [price |-> a.price, calls |-> a.calls]
             ELSE LET rest == FetchStock(i + 1, outcomes)
                  IN  [price |-> rest.price, calls |-> a.calls \o rest.calls]

\* get_stock_price: the price returned, the provider calls made, where the
\* price came from, and the global cache after the call.
GetStockPrice(g, t, symbol, use_cache, cache_ttl, outcomes) ==
    LET key == MakeKey(symbol, "STOCK", 0, "STOCK")
        cache == IF use_cache THEN GetCache(g, cache_ttl) ELSE g
        looked == GreeksCacheGet(cache, t, key)
    IN  IF use_cache /\ ~IsNone(looked.ret)
        THEN [ret |-> looked.ret.price, calls |-> << >>, from |-> "cache",
              global_cache |-> looked.self]
        ELSE LET f == FetchStock(1, outcomes)
                 after == IF use_cache THEN looked.self ELSE g
             IN  [ret |-> f.price, calls |-> f.calls,
                  from |-> IF IsNone(f.price) THEN "none" ELSE "provider",
                  global_cache |-> IF use_cache /\ ~IsNone(f.price)
                                   THEN GreeksCachePut(after, t, key,
                                            [k |-> "dict", price |-> f.price])
                                   ELSE after]

----------------------------------------------------------------------------
(* options_finder.py: get_next_weekly_expiry *)

\* The roll-forward constraint left out.
ExpiryCandidatesMutant(expiries, target_date, utcToday) ==
    {e \in expiries : DteWindowLow <= dte(e, utcToday) /\ dte(e, utcToday) <= DteWindowHigh}

\* candidates = [e for e in expiries if 30 <= dte(e) <= 60
\*               and datetime.strptime(e, "%Y%m%d") >= target_date]
ExpiryCandidates(expiries, target_date, utcToday) ==
    {e \in expiries :
        /\ DteWindowLow <= dte(e, utcToday)
        /\ dte(e, utcToday) <= DteWindowHigh
        /\ Strptime(e) >= target_date}

AbsInt(x) == IF x < 0 THEN -x ELSE x

\* The selector with max in place of min: the candidate farthest from the
\* target date.
ClosestExpiryMutant(candidates, target_date) ==
    CHOOSE e \in candidates :
        \A f \in candidates :
            AbsInt(Strptime(e) - target_date) >= AbsInt(Strptime(f) - target_date)

\* min(candidates, key=lambda e: abs((strptime(e) - target_date).days)) over
\* the sorted list: the least distance, the earliest date among equals.
ClosestExpiry(candidates, target_date) ==
    CHOOSE e \in candidates :
        \A f \in candidates :
            \/ AbsInt(Strptime(e) - target_date) < AbsInt(Strptime(f) - target_date)
            \/ /\ AbsInt(Strptime(e) - target_date) = AbsInt(Strptime(f) - target_date)
               /\ Strptime(e) <= Strptime(f)

RECURSIVE NextWeeklyExpiryFrom(_, _, _, _, _)

\* get_next_weekly_expiry, "for ex in FALLBACK_EXCHANGES" from the i-th venue
\* on, elapsed seconds after start_time.  responses[i] is what
\* reqContractDetails does at the i-th venue: it raises, or returns contract
\* details with the expiries responses[i].expiries (none for an empty list),
\* after responses[i].elapsed seconds.
NextWeeklyExpiryFrom(i, elapsed, target_date, utcToday, responses) ==
    IF i > Len(FALLBACK_EXCHANGES) THEN [ret |-> None, calls |-> << >>, elapsed |-> elapsed]
    ELSE IF elapsed > ExpiryTimeout THEN [ret |-> None, calls |-> << >>, elapsed |-> elapsed]
    ELSE LET r == responses[i]
             call == Call("reqContractDetails", FALLBACK_EXCHANGES[i], r.kind = "raises")
             candidates == IF r.kind = "raises" THEN {}
                           ELSE ExpiryCandidates(r.expiries, target_date, utcToday)
         IN  IF candidates # {}
             THEN [ret |-> Str(ClosestExpiry(candidates, target_date)),
                   calls |-> << call >>, elapsed |-> elapsed + r.elapsed]
             ELSE LET rest == NextWeeklyExpiryFrom(i + 1, elapsed + r.elapsed, target_date,
                                                   utcToday, responses)
                  IN  [ret |-> rest.ret, calls |-> << call >> \o rest.calls,
                       elapsed |-> rest.elapsed]

\* get_next_weekly_expiry(ib, symbol, current_expiry_date, right)
GetNextWeeklyExpiry(utcToday, current_expiry_date, responses) ==
    NextWeeklyExpiryFrom(1, 0, Strptime(current_expiry_date) + RollForwardDays,
                         utcToday, responses)

----------------------------------------------------------------------------
(* options_finder.py: find_strikes_by_delta *)

\* The sign of (spot * pct / 100 as the binary floating-point product) minus
\* the exact product, for the spot prices of the model: 100 * 1.15 is
\* 114.99999999999999 in floating point, the three other products are exact.
FloatErr ==
    {<<200, 105, 0>>, <<200, 115, -1>>, <<200, 85, 0>>, <<200, 95, 0>>}

\* spot * 1.05, spot * 1.15, spot * 0.85, spot * 0.95: the exact product in
\* hundredths, and the sign of the rounding error.
TimesPct(spot, pct) ==
    [exact |-> spot * pct,
     err |-> (CHOOSE row \in FloatErr : row[1] = spot /\ row[2] = pct)[3]]

\* lower_bound <= k
BoundLeStrike(b, strike) ==
    \/ b.exact < 100 * strike
    \/ b.exact = 100 * strike /\ b.err <= 0

\* k <= upper_bound
StrikeLeBound(strike, b) ==
    \/ 100 * strike < b.exact
    \/ 100 * strike = b.exact /\ b.err >= 0

RECURSIVE SortedStrikes(_)

\* sorted({...})
SortedStrikes(S) ==
    IF S = {} THEN << >>
    ELSE LET least == CHOOSE x \in S : \A y \in S : x <= y
         IN  << least >> \o SortedStrikes(S \ {least})

\* band = [k for k in strikes if ...], with a spot price
StrikeBand(strikes, spot, right, target_delta) ==
    LET InBand(strike) ==
            IF right = "C"
            THEN IF target_delta < 15
                 THEN /\ BoundLeStrike(TimesPct(spot, 105), strike)
                      /\ StrikeLeBound(strike, TimesPct(spot, 115))
                 ELSE spot - 50 * Dollar <= strike /\ strike <= spot + 150 * Dollar
            ELSE IF target_delta < -85
                 THEN /\ BoundLeStrike(TimesPct(spot, 85), strike)
                      /\ StrikeLeBound(strike, TimesPct(spot, 95))
                 ELSE spot - 150 * Dollar <= strike /\ strike <= spot + 50 * Dollar
    IN  SelectSeq(strikes, InBand)

\* A sample that is the first 10 strikes of the band.
StrikeSampleMutant(band) ==
    SubSeq(band, 1, IF Len(band) < MaxSample THEN Len(band) ELSE MaxSample)

\* sample = band if len(band) <= 10 else [band[int(i * step)] for i in range(10)]
StrikeSample(band) ==
    IF Len(band) <= MaxSample THEN band
    ELSE [i \in 1..MaxSample |-> band[(((i - 1) * Len(band)) \div MaxSample) + 1]]

\* strikes[:20]
FirstStrikes(strikes) ==
    SubSeq(strikes, 1, IF Len(strikes) < 20 THEN Len(strikes) ELSE 20)

\* abs(abs(o['delta']) - abs(target_delta)), in hundredths
DeltaDistance(o, target_delta) == AbsInt(AbsInt(o.delta.v) - AbsInt(target_delta))

RECURSIVE FetchSample(_, _, _, _, _)

\* A loop that goes on after enough quotes are near the target.
FetchSampleNextMutant(j, sample, start_time, near, next, a) ==
    FetchSample(j + 1, sample, start_time, next, a)

\* The end of one turn of the loop: the early exit once enough quotes are
\* near the target.
FetchSampleNext(j, sample, start_time, near, next, a) ==
    IF near /\ next.good >= TargetGoodOptions THEN next
    ELSE FetchSample(j + 1, sample, start_time, next, a)

\* One turn of the loop, q being what get_option_quote did for sample[j].
FetchSampleStep(j, sample, start_time, acc, a, q) ==
    LET kept == ~IsNone(q.ret) /\ ~IsNone(q.ret.delta)
        near == kept /\ DeltaDistance(q.ret, a.target_delta) <= DeltaTolerance
    IN  FetchSampleNext(j, sample, start_time, near,
            [acc EXCEPT
                !.g = q.global_cache,
                !.t = acc.t + (IF q.from = "cache" THEN 0 ELSE a.market.secs),
                !.options = IF kept THEN Append(acc.options, q.ret) ELSE acc.options,
                !.good = IF near THEN acc.good + 1 ELSE acc.good,
                !.calls = acc.calls \o q.calls,
                !.fetched[Len(acc.fetched)] = Append(@, sample[j]),
                !.observed[Len(acc.observed)] =
                    Append(@, IF IsNone(q.ret) THEN None ELSE q.ret.delta),
                !.fetched_at[Len(acc.fetched_at)] = Append(@, acc.t - a.start_time_total)],
            a)

\* The sequential loop "for k in sample" from the j-th strike on.  acc holds
\* the cache, the clock, the quotes collected, the count of quotes near the
\* target and the provider calls made so far; a holds the arguments.
FetchSample(j, sample, start_time, acc, a) ==
    IF j > Len(sample) THEN acc
    ELSE IF acc.t - start_time > MaxDuration THEN acc
    ELSE FetchSampleStep(j, sample, start_time, acc, a,
             GetOptionQuote(acc.g, acc.t, a.utcToday, a.symbol, a.expiry, sample[j],
                            a.right, TRUE, OptionCacheTtl, a.market.quotes[sample[j]]))

\* The quotes left in the order of the fetches.
SortByDeltaMutant(options, target_delta) == options

RECURSIVE SortByDelta(_, _)

\* options.sort(key=lambda o: abs(abs(o['delta']) - abs(target_delta))): a
\* stable sort, equal keys keep the order of the fetches.
SortByDelta(options, target_delta) ==
    IF options = << >> THEN << >>
    ELSE LET i == CHOOSE x \in 1..Len(options) :
                      \A y \in 1..Len(options) :
                          \/ DeltaDistance(options[x], target_delta)
                                 < DeltaDistance(options[y], target_delta)
                          \/ /\ DeltaDistance(options[x], target_delta)
                                    = DeltaDistance(options[y], target_delta)
                             /\ x <= y
             rest == [n \in 1..(Len(options) - 1) |->
                          IF n < i THEN options[n] ELSE options[n + 1]]
         IN  << options[i] >> \o SortByDelta(rest, target_delta)

\* options[:12]
TopOptions(sorted) ==
    SubSeq(sorted, 1, IF Len(sorted) < TopN THEN Len(sorted) ELSE TopN)

\* The safety check on a chain of more than 200 strikes: those within 30% of
\* the current strike.
NarrowedStrikes(listed, current_strike) ==
    IF Len(listed) > 200 /\ current_strike # 0
    THEN SelectSeq(listed, LAMBDA strike :
             /\ 7 * current_strike <= 10 * strike
             /\ 10 * strike <= 13 * current_strike)
    ELSE listed

\* if spot:
HasSpot(spot) == ~IsNone(spot) /\ spot.v # 0

RECURSIVE StrikesFromVenue(_, _, _)

\* After the loop over the sample of venue i.
VenueLooped(i, looped, a) ==
    IF looped.options = << >> THEN StrikesFromVenue(i + 1, looped, a)
    ELSE [looped EXCEPT !.options = TopOptions(SortByDelta(looped.options, a.target_delta)),
                        !.collected = looped.options]

\* The loop over a sample has ended: the seconds since its start_time.
LoopTimed(start_time, looped) == [looped EXCEPT !.spent = Append(@, looped.t - start_time)]

\* The quotes of the sample of venue i are fetched.
VenueSampled(i, asked, band, sample, a) ==
    VenueLooped(i,
        LoopTimed(asked.t,
            FetchSample(1, sample, asked.t,
                        [asked EXCEPT !.options = << >>, !.good = 0,
                                      !.bands = Append(asked.bands, band),
                                      !.samples = Append(asked.samples, sample),
                                      !.fetched = Append(asked.fetched, << >>),
                                      !.observed = Append(asked.observed, << >>),
                                      !.fetched_at = Append(asked.fetched_at, << >>)],
                        a)),
        a)

\* The band of venue i is sampled; without a spot price the first 20 strikes.
VenueBand(i, asked, strikes, band, a) ==
    VenueSampled(i, asked, band,
                 IF HasSpot(a.spot) THEN StrikeSample(band) ELSE FirstStrikes(strikes), a)

\* The strikes of venue i, c being what reqContractDetails did there.
VenueAsked(i, asked, c, strikes, a) ==
    IF c.kind = "raises" \/ strikes = << >> THEN StrikesFromVenue(i + 1, asked, a)
    ELSE VenueBand(i, asked, strikes,
                   IF HasSpot(a.spot)
                   THEN StrikeBand(strikes, a.spot.v, a.right, a.target_delta) ELSE << >>,
                   a)

\* find_strikes_by_delta, "for ex in FALLBACK_EXCHANGES" from the i-th venue
\* on.  a.market.chain[i] is what reqContractDetails does at the i-th venue:
\* it raises, or reports the strikes listed at the expiry for the right.
StrikesFromVenue(i, acc, a) ==
    IF i > Len(FALLBACK_EXCHANGES) THEN [acc EXCEPT !.options = << >>]
    ELSE IF acc.t - a.start_time_total > MaxTotalTime THEN [acc EXCEPT !.options = << >>]
    ELSE VenueAsked(i,
             [acc EXCEPT !.t = acc.t + a.market.chain[i].elapsed,
                         !.asked_at = Append(@, acc.t - a.start_time_total),
                         !.calls = Append(acc.calls,
                                      Call("reqContractDetails", FALLBACK_EXCHANGES[i],
                                           a.market.chain[i].kind = "raises"))],
             a.market.chain[i],
             NarrowedStrikes(SortedStrikes(a.market.chain[i].strikes), a.current_strike),
             a)

\* find_strikes_by_delta(ib, symbol, expiry, target_delta, spot,
\* current_strike, right): the quotes returned, the cache and the clock after
\* the call, the provider calls, per venue the band, the sample and the
\* strikes fetched, and the quotes collected at the returning venue before
\* the sort.
FindStrikesByDelta(g, t, utcToday, symbol, expiry, target_delta, spot, current_strike, right, market) ==
    StrikesFromVenue(1,
        [g |-> g, t |-> t, options |-> << >>, good |-> 0, calls |-> << >>,
         fetched |-> << >>, bands |-> << >>, samples |-> << >>, collected |-> << >>,
         observed |-> << >>, spent |-> << >>, asked_at |-> << >>, fetched_at |-> << >>],
        [utcToday |-> utcToday, symbol |-> symbol, expiry |-> expiry,
         target_delta |-> target_delta, spot |-> spot, current_strike |-> current_strike,
         right |-> right, market |-> market, start_time_total |-> t])

----------------------------------------------------------------------------
(* options_finder.py: find_roll_options *)

\* A quotient of two floats, kept as numerator and denominator.
Frac(n, d) == [k |-> "frac", n |-> n, d |-> d]

\* f"{x:.0f}" of a difference of strikes: to the nearest dollar, a half to
\* the even neighbour.
Format0f(x) ==
    LET whole == x \div Dollar
    IN  IF x % Dollar = 0 THEN whole
        ELSE IF 2 * (x % Dollar) < Dollar THEN whole
        ELSE IF 2 * (x % Dollar) > Dollar THEN whole + 1
        ELSE IF whole % 2 = 0 THEN whole ELSE whole + 1

\* A label by conservativeness: a put below the current strike called up.
OptTypeMutant(strike, current_strike, right) ==
    IF AbsInt(strike - current_strike) < Dollar THEN [label |-> "Same Strike"]
    ELSE IF (right = "C") = (strike > current_strike)
    THEN [label |-> "Roll Up", amount |-> Format0f(AbsInt(strike - current_strike))]
    ELSE [label |-> "Roll Down", amount |-> Format0f(AbsInt(strike - current_strike))]

\* opt_type of a delta-sampled candidate
OptType(strike, current_strike, right) ==
    IF AbsInt(strike - current_strike) < Dollar THEN [label |-> "Same Strike"]
    ELSE IF right = "C"
    THEN IF strike > current_strike
         THEN [label |-> "Roll Up", amount |-> Format0f(strike - current_strike)]
         ELSE [label |-> "Roll Down", amount |-> Format0f(current_strike - strike)]
    ELSE IF strike < current_strike
         THEN [label |-> "Roll Down", amount |-> Format0f(current_strike - strike)]
         ELSE [label |-> "Roll Up", amount |-> Format0f(strike - current_strike)]

\* A net credit taken to be the new premium alone.
NetCreditMutant(mark, buyback_cost) == mark

\* net_credit = opt['mark'] - buyback_cost
NetCredit(mark, buyback_cost) == mark - buyback_cost

\* A roll at no credit retained too.
IsProfitableMutant(net_credit) == net_credit >= 0

\* if net_credit > 0
IsProfitable(net_credit) == net_credit > 0

\* A candidate whose capital ROI is taken on its own strike.
CandidateMutant(opt_type, opt, buyback_cost, current_strike, current_delta) ==
    LET net_credit == NetCredit(opt.mark, buyback_cost)
    IN  [k |-> "dict", type |-> opt_type, data |-> opt, net_credit |-> net_credit,
         net_delta |-> IF ~IsNone(current_delta) /\ ~IsNone(opt.delta)
                       THEN Num(opt.delta.v - current_delta.v) ELSE None,
         premium_efficiency |-> IF opt.mark > 0 THEN Frac(net_credit * 100, opt.mark)
                                ELSE Frac(0, 1),
         capital_roi |-> IF opt.strike > 0 THEN Frac(net_credit * 100, opt.strike)
                         ELSE Frac(0, 1),
         annualized_roi |-> IF opt.dte > 0
                            THEN IF opt.strike > 0
                                 THEN Frac(net_credit * 100 * 365, opt.strike * opt.dte)
                                 ELSE Frac(0, opt.dte)
                            ELSE Frac(0, 1)]

\* The dict appended to options for the quote opt.
Candidate(opt_type, opt, buyback_cost, current_strike, current_delta) ==
    LET net_credit == NetCredit(opt.mark, buyback_cost)
    IN  [k |-> "dict", type |-> opt_type, data |-> opt, net_credit |-> net_credit,
         net_delta |-> IF ~IsNone(current_delta) /\ ~IsNone(opt.delta)
                       THEN Num(opt.delta.v - current_delta.v) ELSE None,
         premium_efficiency |-> IF opt.mark > 0 THEN Frac(net_credit * 100, opt.mark)
                                ELSE Frac(0, 1),
         capital_roi |-> IF current_strike > 0 THEN Frac(net_credit * 100, current_strike)
                         ELSE Frac(0, 1),
         annualized_roi |-> IF opt.dte > 0
                            THEN IF current_strike > 0
                                 THEN Frac(net_credit * 100 * 365, current_strike * opt.dte)
                                 ELSE Frac(0, opt.dte)
                            ELSE Frac(0, 1)]

RECURSIVE AddDeltaOptionsMutant(_, _, _, _, _, _, _)

\* A loop that adds every profitable quote, duplicates of strike included.
AddDeltaOptionsMutant(j, delta_options, options, buyback_cost, current_strike, current_delta, right) ==
    IF j > Len(delta_options) THEN options
    ELSE LET opt == delta_options[j]
             c == Candidate(OptType(opt.strike, current_strike, right), opt, buyback_cost,
                            current_strike, current_delta)
         IN  AddDeltaOptionsMutant(j + 1, delta_options,
                                   IF IsProfitable(c.net_credit)
                                   THEN Append(options, c) ELSE options,
                                   buyback_cost, current_strike, current_delta, right)

RECURSIVE AddDeltaOptions(_, _, _, _, _, _, _)

\* "for opt in delta_options" from the j-th quote on
AddDeltaOptions(j, delta_options, options, buyback_cost, current_strike, current_delta, right) ==
    IF j > Len(delta_options) THEN options
    ELSE LET opt == delta_options[j]
             c == Candidate(OptType(opt.strike, current_strike, right), opt, buyback_cost,
                            current_strike, current_delta)
             duplicate == \E n \in 1..Len(options) :
                              AbsInt(options[n].data.strike - opt.strike) < Dollar
         IN  AddDeltaOptions(j + 1, delta_options,
                             IF ~duplicate /\ IsProfitable(c.net_credit)
                             THEN Append(options, c) ELSE options,
                             buyback_cost, current_strike, current_delta, right)

\* The tagged failure dicts of find_roll_options
RollError(error, position, current_dte) ==
    [k |-> "dict", error |-> error, symbol |-> position.symbol, strike |-> position.strike,
     expiry |-> position.expiry, dte |-> current_dte]

\* current_dte <= 1 taken for "expiring very soon".
IsExpiringSoonMutant(current_dte) == current_dte <= 1

\* if current_dte <= 2
IsExpiringSoon(current_dte) == current_dte <= 2

\* The data validation before the DTE gate.
PassesDteGateMutant(current_dte, current_mark, config) ==
    \/ current_dte <= config.dte_threshold_for_alert
    \/ IsNone(current_mark)
    \/ IsNaN(current_mark)

\* not (current_dte > config['dte_threshold_for_alert'])
PassesDteGate(current_dte, current_mark, config) ==
    ~(current_dte > config.dte_threshold_for_alert)

\* if buyback_cost is None or NaN: buyback_cost = 0.  The gate on the mark
\* returns before this line for such a mark.
BuybackCost(current_mark) ==
    IF IsNone(current_mark) \/ IsNaN(current_mark) THEN 0 ELSE current_mark.v

\* The dict find_roll_options returns for a list of candidates, None for an
\* empty list.
RollResult(position, utcToday, spot, buyback_cost, options) ==
    IF options = << >> THEN None
    ELSE [k |-> "dict", symbol |-> position.symbol, spot |-> spot,
          current_strike |-> position.strike,
          current_expiry |-> position.expiry,
          current_dte |-> dte(position.expiry, utcToday),
          current_delta |-> position.current_delta,
          buyback_cost |-> buyback_cost,
          entry_credit |-> position.entry_credit,
          current_pnl |-> position.entry_credit - position.current_mark.v,
          contracts |-> position.contracts,
          right |-> position.right, options |-> options]

\* A same-strike candidate priced against the credit received at entry
\* rather than against the cost of buying the position back.
SameStrikeOptionsMutant(same_strike, buyback_cost, position) ==
    IF ~IsNone(same_strike)
       /\ IsProfitable(NetCredit(same_strike.mark, position.entry_credit))
    THEN << Candidate([label |-> "Same Strike"], same_strike, position.entry_credit,
                      position.strike, position.current_delta) >>
    ELSE << >>

\* The same-strike candidate, when its quote was obtained at a net credit.
SameStrikeOptions(same_strike, buyback_cost, position) ==
    IF ~IsNone(same_strike)
       /\ IsProfitable(NetCredit(same_strike.mark, buyback_cost))
    THEN << Candidate([label |-> "Same Strike"], same_strike, buyback_cost,
                      position.strike, position.current_delta) >>
    ELSE << >>

\* find_roll_options from "Option 2-4" on: found is what
\* find_strikes_by_delta did.
RollAfterSampling(utcToday, position, spot, buyback_cost, options1, calls, log3, found) ==
    [ret |-> RollResult(position, utcToday, spot, buyback_cost,
                        AddDeltaOptions(1, found.options, options1, buyback_cost,
                                        position.strike, position.current_delta,
                                        position.right)),
     calls |-> calls \o found.calls,
     callLog |-> Append(log3, [fn |-> "find_strikes_by_delta", ret |-> found.options,
                               bands |-> found.bands, samples |-> found.samples,
                               fetched |-> found.fetched, calls |-> found.calls]),
     global_cache |-> found.g, t |-> found.t]

\* find_roll_options from "Option 1" on: same is what get_option_quote did
\* for the current strike at the replacement expiry, at time t2.
RollAfterSameStrike(t2, utcToday, position, config, market, spot, next_expiry, calls, log2, same) ==
    RollAfterSampling(utcToday, position, spot, BuybackCost(position.current_mark),
        SameStrikeOptions(same.ret, BuybackCost(position.current_mark), position),
        calls \o same.calls,
        Append(log2, [fn |-> "get_option_quote", strike |-> position.strike,
                      ret |-> same.ret, from |-> same.from, calls |-> same.calls]),
        FindStrikesByDelta(same.global_cache,
                           t2 + (IF same.from = "cache" THEN 0 ELSE market.secs),
                           utcToday, position.symbol, next_expiry,
                           IF position.right = "P" THEN config.target_delta_put
                           ELSE config.target_delta_call,
                           spot, position.strike, position.right, market))

\* A finder that, with no replacement expiry, goes on to quote the position's
\* own expiry.
RollAfterLookupsMutant(t1, utcToday, position, config, market, stock, found) ==
    LET spot == IF IsNone(stock.ret) \/ IsNaN(stock.ret) THEN None ELSE stock.ret
        next_expiry == IF IsNone(found.ret) THEN position.expiry ELSE found.ret.v
        log2 == << [fn |-> "get_stock_price", from |-> stock.from, calls |-> stock.calls],
                   [fn |-> "get_next_weekly_expiry", ret |-> found.ret,
                    calls |-> found.calls] >>
    IN  RollAfterSameStrike(t1 + found.elapsed, utcToday, position, config, market,
            spot, next_expiry, stock.calls \o found.calls, log2,
            GetOptionQuote(stock.global_cache, t1 + found.elapsed, utcToday,
                           position.symbol, next_expiry, position.strike,
                           position.right, TRUE, OptionCacheTtl,
                           market.quotes[position.strike]))

\* find_roll_options from the expiry lookup on: stock is what get_stock_price
\* did, found what get_next_weekly_expiry did, t1 the time after the first.
RollAfterLookups(t1, utcToday, position, config, market, stock, found) ==
    LET spot == IF IsNone(stock.ret) \/ IsNaN(stock.ret) THEN None ELSE stock.ret
        calls == stock.calls \o found.calls
        log2 == << [fn |-> "get_stock_price", from |-> stock.from, calls |-> stock.calls],
                   [fn |-> "get_next_weekly_expiry", ret |-> found.ret,
                    calls |-> found.calls] >>
    IN  IF IsNone(found.ret)
        THEN [ret |-> RollError("no_expiry", position, dte(position.expiry, utcToday)),
              calls |-> calls, callLog |-> log2,
              global_cache |-> stock.global_cache, t |-> t1 + found.elapsed]
        ELSE RollAfterSameStrike(t1 + found.elapsed, utcToday, position, config, market,
                 spot, found.ret.v, calls, log2,
                 GetOptionQuote(stock.global_cache, t1 + found.elapsed, utcToday,
                                position.symbol, found.ret.v, position.strike,
                                position.right, TRUE, OptionCacheTtl,
                                market.quotes[position.strike]))

\* find_roll_options from the stock price on: stock is what get_stock_price
\* did at time t.
RollAfterStock(t, utcToday, position, config, market, stock) ==
    RollAfterLookups(t + (IF stock.from = "cache" THEN 0 ELSE market.secs), utcToday,
                     position, config, market, stock,
                     GetNextWeeklyExpiry(utcToday, position.expiry, market.expiries))

\* find_roll_options after the two gates: current_mark is a number
RollCandidates(g, t, utcToday, position, config, market) ==
    RollAfterStock(t, utcToday, position, config, market,
                   GetStockPrice(g, t, position.symbol, TRUE, StockCacheTtl, market.stock))

\* find_roll_options(ib, position, config): the value returned, the provider
\* calls made, the calls of the fetch functions, the global cache and the
\* clock after the call.
FindRollOptions(g, t, utcToday, position, config, market) ==
    LET current_dte == dte(position.expiry, utcToday)
        current_mark == position.current_mark
        stopped(r) == [ret |-> r, calls |-> << >>, callLog |-> << >>,
                       global_cache |-> g, t |-> t]
    IN  IF ~PassesDteGate(current_dte, current_mark, config) THEN stopped(None)
        ELSE IF IsNone(current_mark) \/ IsNaN(current_mark)
        THEN IF IsExpiringSoon(current_dte)
             THEN stopped(RollError("skip_expiring", position, current_dte))
             ELSE stopped(RollError("missing_data", position, current_dte))
        ELSE RollCandidates(g, t, utcToday, position, config, market)

----------------------------------------------------------------------------
(* roll_monitor_live.py: process_position *)

\* The result type of a roll_info returned by find_roll_options.
ResultType(roll_info, current_dte, config) ==
    IF IsNone(roll_info)
    THEN IF current_dte > config.dte_threshold_for_alert THEN "not_ready" ELSE "no_options"
    ELSE IF "error" \in DOMAIN roll_info
    THEN IF roll_info.error = "skip_expiring" THEN "skip_expiring" ELSE "error"
    ELSE "options_found"

\* process_position after find_roll_options returned: r is what it did.
ProcessReturned(utcToday, pos, config, r) ==
    [raised |-> "",
     result_type |-> ResultType(r.ret, dte(pos.expiry, utcToday), config),
     data |-> IF ResultType(r.ret, dte(pos.expiry, utcToday), config) = "options_found"
              THEN r.ret ELSE None,
     global_cache |-> r.global_cache, t |-> r.t, calls |-> r.calls]

\* process_position(ib, pos, config).  env is what the surroundings do during
\* the call:
\*   env.log_opens  whether logging.FileHandler('/tmp/roll_monitor_debug.log'),
\*                  built on every call before the try, can open the file;
\*   env.analysis   "returns": find_roll_options returns, on env.market;
\*                  "raises": an exception comes out of find_roll_options;
\*                  "raises_as_alarm_fires": the same, with SIGALRM delivered
\*                  in the except clause before its signal.alarm(0).
\* platform "win32" has neither signal.SIGALRM nor signal.alarm: line 85 raises
\* AttributeError inside the try, and so does signal.alarm(0) in the except
\* clause that catches it.
\* raised names the exception that leaves process_position, if one does.
ProcessPosition(g, t, utcToday, pos, config, platform, env) ==
    LET escapes(e) == [raised |-> e, result_type |-> "", data |-> None,
                       global_cache |-> g, t |-> t, calls |-> << >>]
    IN  IF ~env.log_opens THEN escapes("OSError")
        ELSE IF platform = "win32" THEN escapes("AttributeError")
        ELSE IF env.analysis = "raises_as_alarm_fires" THEN escapes("TimeoutError")
        ELSE IF env.analysis = "raises"
        THEN [raised |-> "", result_type |-> "exception", data |-> None,
              global_cache |-> g, t |-> t, calls |-> << >>]
        ELSE ProcessReturned(utcToday, pos, config,
                             FindRollOptions(g, t, utcToday, pos, config, env.market))

----------------------------------------------------------------------------
(* The cache alone: one GreeksCache object driven by arbitrary calls *)

CacheKeys == {MakeKey("XYZ", "20260205", 200, "C"), MakeKey("XYZ", "STOCK", 0, "STOCK")}

CacheData == {[k |-> "dict", mark |-> Num(4)], [k |-> "dict", mark |-> Num(12)]}

NoGet ==
    [key |-> None, ret |-> None, age |-> None, tally |-> "none", hitsBefore |-> 0,
     stored |-> None, prev |-> [key |-> None, tally |-> "none", stored |-> None]]

\* The history of a get on key that tallied tally: the age of the entry it
\* met and the time that entry was stored, and the same of the get before it.
GetRecord(key, returned, tally) ==
    [key |-> key, ret |-> returned, tally |-> tally,
     age |-> IF key \in DOMAIN putAt THEN Num(now - putAt[key]) ELSE None,
     hitsBefore |-> global_cache.stats.hits,
     stored |-> IF key \in DOMAIN putAt THEN Num(putAt[key]) ELSE None,
     prev |-> [key |-> lastGet.key, tally |-> lastGet.tally, stored |-> lastGet.stored]]

InitCache ==
    /\ now = 0
    /\ \E ttl \in {StockCacheTtl, OptionCacheTtl} :
          global_cache = NewGreeksCache(ttl)
    /\ putAt = EmptyDict
    /\ lastGet = NoGet
    /\ lastOp = [op |-> "init"]
    /\ today = 0
    /\ ret = None
    /\ ibLog = << >>
    /\ fetched = EmptyDict
    /\ callLog = << >>
    /\ batch = [phase |-> "idle"]
    /\ threads = << >>
    /\ heap = << >>
    /\ monitor = << >>
    /\ alarm = << >>

Tick ==
    /\ now + TickStep <= MaxTime
    /\ now' = now + TickStep
    /\ lastOp' = [op |-> "tick"]
    /\ UNCHANGED <<rollVars, batchVars, threadVars, procVars, cacheVars, fetchVars>>

get(key) ==
    /\ global_cache.stats.total_requests < MaxRequests
    /\ LET r == GreeksCacheGet(global_cache, now, key)
       IN  /\ global_cache' = r.self
           /\ lastGet' = GetRecord(key, r.ret, r.tally)
    /\ lastOp' = [op |-> "get"]
    /\ UNCHANGED <<rollVars, batchVars, threadVars, procVars, now, putAt, fetchVars>>

put(key, data) ==
    /\ global_cache' = GreeksCachePut(global_cache, now, key, data)
    /\ putAt' = DictSet(putAt, key, now)
    /\ lastOp' = [op |-> "put"]
    /\ UNCHANGED <<rollVars, batchVars, threadVars, procVars, now, lastGet, fetchVars>>

clear ==
    /\ global_cache' = GreeksCacheClear(global_cache)
    /\ putAt' = EmptyDict
    /\ lastOp' = [op |-> "clear"]
    /\ UNCHANGED <<rollVars, batchVars, threadVars, procVars, now, lastGet, fetchVars>>

clear_expired ==
    /\ global_cache' = GreeksCacheClearExpired(global_cache, now)
    /\ lastOp' = [op |-> "clear_expired"]
    /\ UNCHANGED <<rollVars, batchVars, threadVars, procVars, now, putAt, lastGet, fetchVars>>

reset_stats ==
    /\ global_cache' = GreeksCacheResetStats(global_cache)
    /\ lastOp' = [op |-> "reset_stats"]
    /\ UNCHANGED <<rollVars, batchVars, threadVars, procVars, now, putAt, lastGet, fetchVars>>

NextCache ==
    \/ Tick
    \/ \E key \in CacheKeys : get(key)
    \/ \E key \in CacheKeys, data \in CacheData : put(key, data)
    \/ clear
    \/ clear_expired
    \/ reset_stats

SpecCache == InitCache /\ [][NextCache]_vars

----------------------------------------------------------------------------
\* C1: every value GreeksCache.get returns was stored at most ttl_seconds ago
\* at the instant of the return, and a get that met an entry older than that
\* returns None and is not tallied in 'hits'.
C1_ReturnedWithinTtl ==
    lastOp.op = "get" =>
        /\ ~IsNone(lastGet.ret) =>
              IsNum(lastGet.age) /\ lastGet.age.v <= global_cache.ttl_seconds
        /\ (IsNum(lastGet.age) /\ lastGet.age.v > global_cache.ttl_seconds) =>
              /\ IsNone(lastGet.ret)
              /\ global_cache.stats.hits = lastGet.hitsBefore

C1_Witness ==
    /\ lastOp.op = "get"
    /\ IsNum(lastGet.age)
    /\ lastGet.age.v > global_cache.ttl_seconds
    /\ IsNone(lastGet.ret)
    /\ lastGet.tally = "expired"

----------------------------------------------------------------------------
\* The four counters of the cache add up.
CountersAddUp ==
    global_cache.stats.total_requests
        = global_cache.stats.hits + global_cache.stats.misses + global_cache.stats.expired

\* A step of put, clear or clear_expired.
IsStoreStep == lastOp'.op \in {"put", "clear", "clear_expired"}

\* C39: in every state reached by get, put, clear, clear_expired and
\* reset_stats calls made one after the other, total_requests = hits + misses
\* + expired; put, clear and clear_expired leave the four counters unchanged.
C39_CountersConsistent ==
    /\ []CountersAddUp
    /\ [][IsStoreStep => global_cache'.stats = global_cache.stats]_vars

\* After a hit, a miss and a get that met an expired entry, a sweep has
\* removed another expired entry; the counters are those of the three gets.
C39_Witness ==
    /\ lastOp.op = "clear_expired"
    /\ global_cache.stats = [hits |-> 1, misses |-> 1, expired |-> 1, total_requests |-> 3]
    /\ putAt # EmptyDict
    /\ \A key \in DOMAIN putAt : key \notin DOMAIN global_cache.cache

----------------------------------------------------------------------------
(* The quote fetcher: get_option_quote and get_stock_price called at         *)
(* arbitrary times, the provider answering each venue in any way.            *)

NoData == [bid |-> NaN, ask |-> NaN, last |-> NaN, close |-> NaN, modelGreeks |-> None]

Greeks(d) == [k |-> "greeks", delta |-> d]

\* A two-sided quote with greeks, and a close-only quote without.
TickerMid == [bid |-> Num(10), ask |-> Num(14), last |-> NaN, close |-> NaN,
              modelGreeks |-> Greeks(Num(8))]

TickerClose == [bid |-> NaN, ask |-> NaN, last |-> NaN, close |-> Num(4), modelGreeks |-> None]

TickerStock == [bid |-> Num(200), ask |-> Num(200), last |-> NaN, close |-> NaN,
                modelGreeks |-> None]

Raises(kd) == [tk |-> NoData, cancel_raises |-> FALSE, kind |-> kd]

Answers(tk, b) == [tk |-> tk, cancel_raises |-> b, kind |-> "ticker"]

\* What the first and the second venue may do on an option request.
Outcomes1 ==
    {Raises("req_error"), Raises("sleep_error"), Answers(NoData, FALSE),
     Answers(TickerMid, FALSE), Answers(TickerMid, TRUE)}

Outcomes2 ==
    {Raises("qualify_error"), Answers(NoData, TRUE), Answers(TickerClose, FALSE)}

\* What the venues may do on a stock request.
StockOutcomes ==
    {Raises("req_error"), Answers(NoData, FALSE), Answers(TickerStock, FALSE)}

QuoteExpiries == {"20260205"}

QuoteStrikes == {200, 210}

InitQuote ==
    /\ now = 0
    /\ global_cache = None
    /\ putAt = EmptyDict
    /\ lastGet = NoGet
    /\ lastOp = [op |-> "init"]
    /\ today = 0
    /\ ret = None
    /\ ibLog = << >>
    /\ fetched = EmptyDict
    /\ callLog = << >>
    /\ batch = [phase |-> "idle"]
    /\ threads = << >>
    /\ heap = << >>
    /\ monitor = << >>
    /\ alarm = << >>

Requests(g) == IF IsNone(g) THEN 0 ELSE g.stats.total_requests

\* The age at time t of the entry stored under key, None without an entry.
EntryAge(g, key, t) ==
    IF IsNone(g) THEN None
    ELSE IF key \notin DOMAIN g.cache THEN None
    ELSE Num(t - g.cache[key].timestamp)

get_option_quote(symbol, expiry, strike, right, use_cache, outcomes) ==
    /\ Requests(global_cache) < MaxRequests
    /\ \E r \in {GetOptionQuote(global_cache, now, today, symbol, expiry, strike, right,
                                  use_cache, OptionCacheTtl, outcomes)},
          key \in {MakeKey(symbol, expiry, strike, right)} :
           /\ global_cache' = r.global_cache
           /\ ret' = r.ret
           /\ ibLog' = r.calls
           /\ fetched' = IF use_cache /\ r.from = "provider"
                         THEN DictSet(fetched, key, [quote |-> r.ret, at |-> now])
                         ELSE fetched
           /\ lastOp' = [op |-> "get_option_quote", key |-> key, use_cache |-> use_cache,
                         from |-> r.from, outcomes |-> outcomes,
                         age |-> EntryAge(global_cache, key, now)]
    /\ UNCHANGED <<rollVars, batchVars, threadVars, procVars, now, putAt, lastGet, today>>

get_stock_price(symbol, use_cache, outcomes) ==
    /\ Requests(global_cache) < MaxRequests
    /\ \E r \in {GetStockPrice(global_cache, now, symbol, use_cache, StockCacheTtl, outcomes)} :
           /\ global_cache' = r.global_cache
           /\ ret' = r.ret
           /\ ibLog' = r.calls
           /\ lastOp' = [op |-> "get_stock_price", key |-> MakeKey(symbol, "STOCK", 0, "STOCK"),
                         use_cache |-> use_cache, from |-> r.from, outcomes |-> outcomes,
                         age |-> EntryAge(global_cache, MakeKey(symbol, "STOCK", 0, "STOCK"),
                                          now)]
    /\ UNCHANGED <<rollVars, batchVars, threadVars, procVars, now, putAt, lastGet, today, fetched>>

TickQuote ==
    /\ now + TickStep <= MaxTime
    /\ now' = now + TickStep
    /\ lastOp' = [op |-> "tick"]
    /\ UNCHANGED <<rollVars, batchVars, threadVars, procVars, cacheVars, fetchVars>>

NextQuote ==
    \/ TickQuote
    \/ \E symbol \in Symbols, expiry \in QuoteExpiries, strike \in QuoteStrikes,
          use_cache \in BOOLEAN,
          o1 \in Outcomes1, o2 \in Outcomes2 :
          get_option_quote(symbol, expiry, strike, "C", use_cache, << o1, o2 >>)
    \/ \E symbol \in Symbols, use_cache \in BOOLEAN,
          o1 \in StockOutcomes, o4 \in StockOutcomes :
          get_stock_price(symbol, use_cache, << o1, Raises("req_error"), o1, o4 >>)

SpecQuote == InitQuote /\ [][NextQuote]_vars

----------------------------------------------------------------------------
\* The positions in the log of the last call where a subscription was opened:
\* reqMktData returned a ticker.
Opened == {i \in DOMAIN ibLog : ibLog[i].op = "reqMktData" /\ ~ibLog[i].raised}

\* C7: when get_option_quote returns, cancelMktData has been issued, after the
\* reqMktData, at the same venue, for every subscription the call opened:
\* on the success path, on a provider exception, and when falling through to
\* the next venue.
C7_EverySubscriptionCancelled ==
    lastOp.op = "get_option_quote" =>
        \A i \in Opened :
            \E j \in DOMAIN ibLog :
                j > i /\ ibLog[j].op = "cancelMktData" /\ ibLog[j].ex = ibLog[i].ex

\* A call that opened a subscription at both venues, found no usable mark at
\* the first, met an error while cancelling, and returned None.
C7_Witness ==
    /\ lastOp.op = "get_option_quote"
    /\ IsNone(ret)
    /\ Cardinality(Opened) = Len(FALLBACK_EXCHANGES)
    /\ \E j \in DOMAIN ibLog : ibLog[j].op = "cancelMktData" /\ ibLog[j].raised

\* The venues the last call contacted, in the order of their first contact.
VenuesTried == [i \in 1..Cardinality({j \in DOMAIN ibLog : ibLog[j].op = "qualifyContracts"}) |->
    ibLog[CHOOSE j \in DOMAIN ibLog :
            /\ ibLog[j].op = "qualifyContracts"
            /\ Cardinality({m \in 1..j : ibLog[m].op = "qualifyContracts"}) = i].ex]

\* The venue answers with a usable mark and no provider call raises there.
YieldsQuote(o) == o.kind = "ticker" /\ ~o.cancel_raises /\ ~IsNone(safe_mark(o.tk))

\* C8: on a cache miss the venues are contacted in the order of
\* FALLBACK_EXCHANGES; the call stops at the first venue that yields a usable
\* mark without a provider error and returns the quote built from that venue's
\* ticker; it returns None only when every venue has been contacted and none
\* yielded a quote.
C8_VenuesInOrder ==
    (lastOp.op = "get_option_quote" /\ lastOp.from # "cache") =>
        LET good == {i \in DOMAIN FALLBACK_EXCHANGES : YieldsQuote(lastOp.outcomes[i])}
            n == Len(VenuesTried)
        IN  /\ VenuesTried = SubSeq(FALLBACK_EXCHANGES, 1, n)
            /\ good # {} =>
                  LET first == CHOOSE i \in good : \A m \in good : i <= m
                  IN  /\ n = first
                      /\ ~IsNone(ret)
                      /\ ret.mark = safe_mark(lastOp.outcomes[first].tk).v
                      /\ ret.bid = lastOp.outcomes[first].tk.bid
            /\ good = {} => IsNone(ret) /\ n = Len(FALLBACK_EXCHANGES)

\* The first venue fails, the second one determines the result.
C8_Witness ==
    /\ lastOp.op = "get_option_quote"
    /\ lastOp.from = "provider"
    /\ ~YieldsQuote(lastOp.outcomes[1])
    /\ VenuesTried = FALLBACK_EXCHANGES
    /\ ~IsNone(ret)
    /\ ret.mark = safe_mark(lastOp.outcomes[2].tk).v

\* C9: once get_option_quote has fetched a quote for an identity with caching
\* enabled, a further call for that identity with caching enabled, made while
\* the quote is no older than the TTL of the cache, returns an equal quote
\* from the cache and makes no provider call.
C9_ServedFromCache ==
    [][ (/\ lastOp'.op = "get_option_quote"
         /\ lastOp'.use_cache
         /\ lastOp'.key \in DOMAIN fetched
         /\ ~IsNone(global_cache)
         /\ now - fetched[lastOp'.key].at <= global_cache.ttl_seconds)
        => (/\ ret' = fetched[lastOp'.key].quote
            /\ ibLog' = << >>
            /\ lastOp'.from = "cache") ]_vars

\* A second call, later than the fetch, answered from the cache.
C9_Witness ==
    /\ lastOp.op = "get_option_quote"
    /\ lastOp.from = "cache"
    /\ lastOp.key \in DOMAIN fetched
    /\ now > fetched[lastOp.key].at
    /\ ret = fetched[lastOp.key].quote
    /\ ibLog = << >>

\* A fetch with caching enabled that met an entry under its key.
MetEntry(op) == lastOp.op = op /\ lastOp.use_cache /\ IsNum(lastOp.age)

\* C23, as stated: each fetch applies the TTL it requests.  An option quote
\* is served from the cache exactly while its entry is at most 60 s old and a
\* stock price exactly while its entry is at most 30 s old, whichever of the
\* two fetches created the cache.
C23_TtlOfTheFetch ==
    /\ MetEntry("get_option_quote") =>
          (lastOp.from = "cache" <=> lastOp.age.v <= OptionCacheTtl)
    /\ MetEntry("get_stock_price") =>
          (lastOp.from = "cache" <=> lastOp.age.v <= StockCacheTtl)

\* The option half of C23 alone, and the stock half alone.
C23_OptionHalf ==
    MetEntry("get_option_quote") =>
        (lastOp.from = "cache" <=> lastOp.age.v <= OptionCacheTtl)

C23_StockHalf ==
    MetEntry("get_stock_price") =>
        (lastOp.from = "cache" <=> lastOp.age.v <= StockCacheTtl)

----------------------------------------------------------------------------
(* The expiry selector: get_next_weekly_expiry called for any position       *)
(* expiry, the provider reporting any set of expiries at each venue.         *)

ReportedExpiries == {"20260131", "20260205", "20260302", "20260312"}

CurrentExpiries == {"20260102", "20260115", "20260131"}

\* An answer within a second, or one that takes longer than the timeout.
ResponseTimes == {1, ExpiryTimeout + 1}

\* A chain of expirations 20, 35, 40, 58 and 70 days out.
LongChain == {"20260121", "20260205", "20260210", "20260228", "20260312"}

ExpiryResponses ==
    {[kind |-> "raises", expiries |-> {}, elapsed |-> d] : d \in ResponseTimes}
    \cup {[kind |-> "details", expiries |-> es, elapsed |-> d] :
            es \in (SUBSET ReportedExpiries) \cup {LongChain}, d \in ResponseTimes}

InitExpiry ==
    /\ now = 0
    /\ global_cache = None
    /\ putAt = EmptyDict
    /\ lastGet = NoGet
    /\ lastOp = [op |-> "init"]
    /\ today = 0
    /\ ret = None
    /\ ibLog = << >>
    /\ fetched = EmptyDict
    /\ callLog = << >>
    /\ batch = [phase |-> "idle"]
    /\ threads = << >>
    /\ heap = << >>
    /\ monitor = << >>
    /\ alarm = << >>

get_next_weekly_expiry(current_expiry_date, responses) ==
    /\ \E r \in {GetNextWeeklyExpiry(today, current_expiry_date, responses)} :
           /\ ret' = r.ret
           /\ ibLog' = r.calls
           /\ now' = now + r.elapsed
    /\ lastOp' = [op |-> "get_next_weekly_expiry", current_expiry_date |-> current_expiry_date,
                  responses |-> responses]
    /\ UNCHANGED <<rollVars, batchVars, threadVars, procVars, cacheVars, today, fetched>>

Midnight ==
    /\ today < MaxToday
    /\ today' = today + 1
    /\ now' = 0
    /\ ret' = None
    /\ ibLog' = << >>
    /\ lastOp' = [op |-> "midnight"]
    /\ UNCHANGED <<rollVars, batchVars, threadVars, procVars, cacheVars, fetched>>

NextExpiry ==
    \/ Midnight
    \/ \E current_expiry_date \in CurrentExpiries, r1 \in ExpiryResponses, r2 \in ExpiryResponses :
          /\ lastOp.op # "get_next_weekly_expiry"
          /\ get_next_weekly_expiry(current_expiry_date, << r1, r2 >>)

SpecExpiry == InitExpiry /\ [][NextExpiry]_vars

\* An expiry satisfies both constraints of the selector.
Suitable(e, current_expiry_date) ==
    /\ DteWindowLow <= Strptime(e) - today
    /\ Strptime(e) - today <= DteWindowHigh
    /\ Strptime(e) >= Strptime(current_expiry_date) + RollForwardDays

\* The expiries the provider reports at some venue in the last call.
Reported ==
    UNION {lastOp.responses[i].expiries : i \in DOMAIN lastOp.responses}

\* C10: an expiry returned by get_next_weekly_expiry is one the provider
\* reported, its days to expiration are within [30, 60] and its date is on or
\* after current_expiry + 7 days; if no reported expiry of any venue satisfies
\* both constraints the function returns None.
C10_ReturnedExpirySuitable ==
    lastOp.op = "get_next_weekly_expiry" =>
        /\ ~IsNone(ret) =>
              /\ ret.v \in Reported
              /\ Suitable(ret.v, lastOp.current_expiry_date)
        /\ (\A e \in Reported : ~Suitable(e, lastOp.current_expiry_date)) => IsNone(ret)

\* An expiry is returned although the provider also reported one inside the
\* DTE window but before current_expiry + 7 days.
C10_Witness ==
    /\ lastOp.op = "get_next_weekly_expiry"
    /\ ~IsNone(ret)
    /\ \E e \in Reported :
          /\ DteWindowLow <= Strptime(e) - today
          /\ Strptime(e) - today <= DteWindowHigh
          /\ Strptime(e) < Strptime(lastOp.current_expiry_date) + RollForwardDays

\* The venue whose contract details the last call selected from: the last one
\* it asked.
AnsweringVenue == lastOp.responses[Len(ibLog)]

\* Absolute day distance of an expiry to target_date = current_expiry + 7 days.
TargetDistance(e, current_expiry_date) ==
    AbsInt(Strptime(e) - (Strptime(current_expiry_date) + RollForwardDays))

\* C11: among the expirations of the answering venue that satisfy both
\* constraints, get_next_weekly_expiry returns one with minimal absolute day
\* distance to target_date = current_expiry + 7 days.
C11_ClosestToTarget ==
    (lastOp.op = "get_next_weekly_expiry" /\ ~IsNone(ret)) =>
        /\ ret.v \in AnsweringVenue.expiries
        /\ \A e \in AnsweringVenue.expiries :
               Suitable(e, lastOp.current_expiry_date) =>
                   TargetDistance(ret.v, lastOp.current_expiry_date)
                       <= TargetDistance(e, lastOp.current_expiry_date)

\* Expirations 20, 35, 40, 58 and 70 days out with the current expiry at day
\* 14: the 35-day expiration is returned, the 40- and 58-day ones also being
\* suitable.
C11_Witness ==
    /\ lastOp.op = "get_next_weekly_expiry"
    /\ today = 0
    /\ lastOp.current_expiry_date = "20260115"
    /\ AnsweringVenue.expiries = LongChain
    /\ Suitable("20260210", lastOp.current_expiry_date)
    /\ Suitable("20260228", lastOp.current_expiry_date)
    /\ ret = Str("20260205")

----------------------------------------------------------------------------
(* The expiry selector step by step: get_next_weekly_expiry blocks inside    *)
(* ib.reqContractDetails(probe) until the provider answers, while the clock  *)
(* runs.  The function reads the clock only at the top of each venue         *)
(* iteration; _safe_req_contract_details, which would give up after its own  *)
(* timeout, is not called by it.                                             *)

LookupTick == 10

MaxLookupTime == 40

InitLookup ==
    /\ now = 0
    /\ global_cache = None
    /\ putAt = EmptyDict
    /\ lastGet = NoGet
    /\ lastOp = [op |-> "init"]
    /\ today \in 0..MaxToday
    /\ ret = None
    /\ ibLog = << >>
    /\ fetched = EmptyDict
    /\ callLog = << >>
    /\ batch = [phase |-> "idle"]
    /\ threads = << >>
    /\ heap = << >>
    /\ monitor = << >>
    /\ alarm = << >>

\* The caller is blocked in reqContractDetails at venue lastOp.venue.
Waiting == lastOp.op = "reqContractDetails"

\* The call has returned.
LookupReturned == lastOp.op = "get_next_weekly_expiry"

\* time.time() - start_time
LookupElapsed == now - lastOp.start_time

\* The call: start_time = time.time(), the first iteration's timeout check
\* passes and the request to the first venue is issued.
call_get_next_weekly_expiry(current_expiry_date) ==
    /\ lastOp.op = "init"
    /\ lastOp' = [op |-> "reqContractDetails", current_expiry_date |-> current_expiry_date,
                  start_time |-> now, venue |-> 1]
    /\ ret' = None
    /\ UNCHANGED <<rollVars, batchVars, threadVars, procVars, cacheVars, now, today, fetched, ibLog>>

\* A wall-clock interval passes while the request is outstanding.
SecondsPass ==
    /\ Waiting
    /\ now < MaxLookupTime
    /\ now' = now + LookupTick
    /\ UNCHANGED <<rollVars, batchVars, threadVars, procVars, global_cache, putAt, lastGet,
                   lastOp, today, ret, ibLog, fetched>>

\* The rest of the loop once venue i has yielded no candidate: the next
\* iteration checks the timeout and issues the next request, or the loop ends.
LookupGoesOn(i) ==
    IF i + 1 > Len(FALLBACK_EXCHANGES) \/ LookupElapsed > ExpiryTimeout
    THEN /\ ret' = None
         /\ lastOp' = [lastOp EXCEPT !.op = "get_next_weekly_expiry"]
    ELSE /\ ret' = None
         /\ lastOp' = [lastOp EXCEPT !.venue = i + 1]

\* The provider answers the outstanding request: reqContractDetails raises or
\* returns contract details with the given expiries, and the function runs on
\* to its return or to its next request.
provider_answers(kind, expiries) ==
    /\ Waiting
    /\ ibLog' = Append(ibLog, Call("reqContractDetails", FALLBACK_EXCHANGES[lastOp.venue],
                                   kind = "raises"))
    /\ \E candidates \in {IF kind = "raises" THEN {}
                           ELSE ExpiryCandidates(expiries,
                                    Strptime(lastOp.current_expiry_date) + RollForwardDays,
                                    today)} :
           IF candidates # {}
           THEN /\ ret' = Str(ClosestExpiry(candidates,
                                  Strptime(lastOp.current_expiry_date) + RollForwardDays))
                /\ lastOp' = [lastOp EXCEPT !.op = "get_next_weekly_expiry"]
           ELSE LookupGoesOn(lastOp.venue)
    /\ UNCHANGED <<rollVars, batchVars, threadVars, procVars, cacheVars, now, today, fetched>>

NextLookup ==
    \/ \E current_expiry_date \in CurrentExpiries :
          call_get_next_weekly_expiry(current_expiry_date)
    \/ SecondsPass
    \/ \E expiries \in (SUBSET ReportedExpiries) \cup {LongChain} :
          provider_answers("details", expiries)
    \/ provider_answers("raises", {})

\* The clock runs and the caller's own steps are taken; nothing obliges the
\* provider to answer a request.
SpecLookup ==
    /\ InitLookup
    /\ [][NextLookup]_vars
    /\ WF_vars(SecondsPass)
    /\ WF_vars(\E current_expiry_date \in CurrentExpiries :
                  call_get_next_weekly_expiry(current_expiry_date))

\* C12: get_next_weekly_expiry bounds its total wall-clock time across all
\* venue attempts by its timeout of 30 s: once the ceiling is passed it
\* returns None, whatever a venue's contract-details request does.
C12_ReturnsNoneOncePastTimeout ==
    (Waiting /\ LookupElapsed > ExpiryTimeout) ~> (LookupReturned /\ IsNone(ret))

----------------------------------------------------------------------------
(* The roll finder: find_roll_options called once for any position, any      *)
(* configuration and any behaviour of the provider, on a cache that earlier  *)
(* fetches may have filled.                                                  *)

\* Two-sided quotes with greeks, for a call and for a put.
TickerLow == [bid |-> Num(4), ask |-> Num(6), last |-> NaN, close |-> NaN,
              modelGreeks |-> Greeks(Num(12))]

TickerPut == [bid |-> Num(16), ask |-> Num(20), last |-> NaN, close |-> NaN,
              modelGreeks |-> Greeks(Num(-88))]

\* A quote at $4.50 / $5.50: a mark of $5.00.
TickerFive == [bid |-> Num(9), ask |-> Num(11), last |-> NaN, close |-> NaN,
               modelGreeks |-> Greeks(Num(10))]

\* The strikes listed at the replacement expiry: $90 to $115.
ChainStrikes == {180, 200, 201, 210, 220, 230}

Works(tk) == << Answers(tk, FALSE), Raises("qualify_error") >>

Fails == << Raises("req_error"), Answers(NoData, FALSE) >>

\* What the provider answers on the option quote of each strike.
QuoteBooks ==
    {[strike \in ChainStrikes |-> Works(TickerMid)],
     [strike \in ChainStrikes |->
         CASE strike = 200 -> << Raises("req_error"), Answers(TickerClose, FALSE) >>
           [] strike = 210 -> Works(TickerLow)
           [] strike = 220 -> Fails
           [] strike = 180 -> Works(TickerPut)
           [] OTHER -> Works(TickerMid)],
     [strike \in ChainStrikes |-> Fails],
     [strike \in ChainStrikes |-> Works(TickerFive)]}

StockWorks == << Answers(TickerStock, FALSE), Raises("req_error"),
                 Raises("req_error"), Raises("req_error") >>

StockFails == << Raises("req_error"), Answers(NoData, FALSE),
                 Raises("qualify_error"), Answers(NoData, FALSE) >>

ExpiryFound ==
    << [kind |-> "details", expiries |-> {"20260131", "20260205", "20260312"}, elapsed |-> 1],
       [kind |-> "raises", expiries |-> {}, elapsed |-> 1] >>

\* The first venue lists the expirations 20, 35, 40, 58 and 70 days out.
ExpiryLong ==
    << [kind |-> "details", expiries |-> LongChain, elapsed |-> 1],
       [kind |-> "raises", expiries |-> {}, elapsed |-> 1] >>

ExpiryMissing ==
    << [kind |-> "raises", expiries |-> {}, elapsed |-> 1],
       [kind |-> "details", expiries |-> {"20260312"}, elapsed |-> 1] >>

ChainListed ==
    << [kind |-> "details", elapsed |-> 1, strikes |-> ChainStrikes],
       [kind |-> "raises", elapsed |-> 1, strikes |-> {}] >>

\* The seconds one market-data fetch at the provider takes.
QuoteSecs == {3}

Markets ==
    [stock : {StockWorks, StockFails}, expiries : {ExpiryFound, ExpiryMissing, ExpiryLong},
     chain : {ChainListed}, quotes : QuoteBooks, secs : QuoteSecs]

\* Positions as get_current_positions builds them: the mark is None or a
\* positive number, the delta may be missing; a NaN mark for a caller that
\* passes one.
PositionExpiries == {"20260102", "20260103", "20260111", "20260115"}

MarkAndDelta ==
    {<< None, None >>, << NaN, None >>, << Num(4), None >>, << Num(12), Num(4) >>,
     << Num(6), Num(4) >>, << Num(4), Num(4) >>}

RollPositions ==
    {[k |-> "dict", symbol |-> "XYZ", strike |-> 200, expiry |-> e, right |-> r,
      contracts |-> 1, entry_credit |-> 8, current_mark |-> md[1], current_delta |-> md[2]] :
        e \in PositionExpiries, r \in Rights, md \in MarkAndDelta}

DteThresholds == {7, 14, 45}

Configs ==
    [dte_threshold_for_alert : DteThresholds, target_delta_call : {10},
     target_delta_put : {-90}]

InitRoll ==
    /\ now = 0
    /\ global_cache = None
    /\ putAt = EmptyDict
    /\ lastGet = NoGet
    /\ lastOp = [op |-> "init"]
    /\ today = 0
    /\ ret = None
    /\ ibLog = << >>
    /\ fetched = EmptyDict
    /\ callLog = << >>
    /\ batch = [phase |-> "idle"]
    /\ threads = << >>
    /\ heap = << >>
    /\ monitor = << >>
    /\ alarm = << >>

find_roll_options(position, config, market) ==
    /\ lastOp.op # "find_roll_options"
    /\ \E r \in {FindRollOptions(global_cache, now, today, position, config, market)} :
           /\ global_cache' = r.global_cache
           /\ ret' = r.ret
           /\ ibLog' = r.calls
           /\ callLog' = r.callLog
           /\ now' = r.t
    /\ lastOp' = [op |-> "find_roll_options", position |-> position, config |-> config,
                  market |-> market, cache_before |-> global_cache]
    /\ UNCHANGED <<putAt, lastGet, today, fetched, batchVars, threadVars, procVars>>

NextRoll ==
    \/ /\ lastOp.op # "find_roll_options"
       /\ get_stock_price("XYZ", TRUE, StockWorks)
    \/ /\ lastOp.op # "find_roll_options"
       /\ get_option_quote("XYZ", "20260205", 200, "C", TRUE, Works(TickerMid))
    \/ \E position \in RollPositions, config \in Configs, market \in Markets :
          find_roll_options(position, config, market)

SpecRoll == InitRoll /\ [][NextRoll]_vars

\* find_roll_options returned a result with candidates.
IsRollResult ==
    /\ lastOp.op = "find_roll_options"
    /\ ~IsNone(ret)
    /\ "options" \in DOMAIN ret

MarkMissing == IsNone(lastOp.position.current_mark) \/ IsNaN(lastOp.position.current_mark)

CurrentDte == Strptime(lastOp.position.expiry) - today

\* No provider call, no call of a fetch function, no cache access.
NothingFetched ==
    /\ ibLog = << >>
    /\ callLog = << >>
    /\ global_cache = lastOp.cache_before

\* C2: every candidate of the 'options' list returned by find_roll_options has
\* net_credit > 0, so no candidate with net_credit <= 0 is in the list.
C2_CandidatesProfitable ==
    IsRollResult =>
        \A n \in 1..Len(ret.options) :
            /\ ret.options[n].net_credit > 0
            /\ ret.options[n].data.mark > lastOp.position.current_mark.v

\* A result is returned while a quote that was fetched for it, at no credit
\* or at a debit, was left out.
C2_Witness ==
    /\ IsRollResult
    /\ \E q \in {callLog[4].ret[n] : n \in 1..Len(callLog[4].ret)} :
          /\ q.mark <= lastOp.position.current_mark.v
          /\ \A n \in 1..Len(ret.options) : ret.options[n].data # q

\* C3: in a result of find_roll_options, net_credit of every candidate is the
\* mark of its quote minus buyback_cost, buyback_cost is the current_mark of
\* the position (zero for a missing or NaN mark), and current_pnl is
\* entry_credit minus buyback_cost.
C3_NetCreditFormula ==
    IsRollResult =>
        /\ ret.buyback_cost = (IF MarkMissing THEN 0 ELSE lastOp.position.current_mark.v)
        /\ ret.current_pnl = lastOp.position.entry_credit - ret.buyback_cost
        /\ \A n \in 1..Len(ret.options) :
              ret.options[n].net_credit = ret.options[n].data.mark - ret.buyback_cost

\* A result with a same-strike and a delta-sampled candidate for a position
\* bought back at a positive price.
C3_Witness ==
    /\ IsRollResult
    /\ Len(ret.options) >= 2
    /\ ret.buyback_cost > 0
    /\ ret.options[1].net_credit # ret.options[2].net_credit

\* C4: a position whose DTE exceeds dte_threshold_for_alert makes
\* find_roll_options return None without any stock fetch, expiry lookup,
\* quote fetch or cache access, whatever its current_mark.
C4_DteGateFirst ==
    (lastOp.op = "find_roll_options" /\ CurrentDte > lastOp.config.dte_threshold_for_alert) =>
        /\ IsNone(ret)
        /\ NothingFetched

\* A position above the threshold with a NaN mark, evaluated on a filled cache.
C4_Witness ==
    /\ lastOp.op = "find_roll_options"
    /\ CurrentDte > lastOp.config.dte_threshold_for_alert
    /\ IsNaN(lastOp.position.current_mark)
    /\ ~IsNone(global_cache)
    /\ DOMAIN global_cache.cache # {}
    /\ IsNone(ret)

\* C5, as stated: a missing mark yields 'skip_expiring' when DTE <= 2 and
\* 'missing_data' otherwise, and the provider is not contacted.
C5_MissingMarkAsStated ==
    (lastOp.op = "find_roll_options" /\ MarkMissing) =>
        /\ ~IsNone(ret)
        /\ "error" \in DOMAIN ret
        /\ ret.error = (IF CurrentDte <= 2 THEN "skip_expiring" ELSE "missing_data")
        /\ NothingFetched

\* C5, for the positions that pass the DTE gate: with DTE not above
\* dte_threshold_for_alert a missing mark (None or NaN) yields
\* 'skip_expiring' when DTE <= 2 and 'missing_data' otherwise, and the
\* provider is not contacted.
C5_MissingMarkWithinThreshold ==
    (/\ lastOp.op = "find_roll_options"
     /\ MarkMissing
     /\ CurrentDte <= lastOp.config.dte_threshold_for_alert) =>
        /\ ~IsNone(ret)
        /\ "error" \in DOMAIN ret
        /\ ret.error = (IF CurrentDte <= 2 THEN "skip_expiring" ELSE "missing_data")
        /\ NothingFetched

\* A NaN mark at DTE = 10 within the threshold is reported as missing data.
C5_Witness ==
    /\ lastOp.op = "find_roll_options"
    /\ IsNaN(lastOp.position.current_mark)
    /\ CurrentDte = 10
    /\ CurrentDte <= lastOp.config.dte_threshold_for_alert
    /\ ~IsNone(ret)
    /\ "error" \in DOMAIN ret
    /\ ret.error = "missing_data"

\* The position of the last call passed the DTE gate and the gate on its
\* mark.
PassedGates ==
    /\ lastOp.op = "find_roll_options"
    /\ CurrentDte <= lastOp.config.dte_threshold_for_alert
    /\ ~MarkMissing

\* The provider's chains hold no replacement expiry for the position of the
\* last call.
NoReplacementExpiry ==
    IsNone(GetNextWeeklyExpiry(today, lastOp.position.expiry, lastOp.market.expiries).ret)

\* C13: if a position passes the DTE and data-quality gates and no replacement
\* expiry is found, find_roll_options returns the tagged failure 'no_expiry';
\* it has called get_stock_price and get_next_weekly_expiry only: no option
\* quote is fetched and no strike is sampled.
C13_NoExpiryStopsThere ==
    (PassedGates /\ NoReplacementExpiry) =>
        /\ "error" \in DOMAIN ret
        /\ ret.error = "no_expiry"
        /\ Len(callLog) = 2
        /\ callLog[1].fn = "get_stock_price"
        /\ callLog[2].fn = "get_next_weekly_expiry"
        /\ ibLog = callLog[1].calls \o callLog[2].calls
        /\ \A n \in DOMAIN ibLog :
               ibLog[n].op = "reqContractDetails" => n > Len(callLog[1].calls)

\* No replacement expiry for a position whose same-strike quote the provider
\* would have answered.
C13_Witness ==
    /\ PassedGates
    /\ NoReplacementExpiry
    /\ ret.error = "no_expiry"
    /\ lastOp.market.quotes[lastOp.position.strike] = Works(TickerMid)
    /\ Len(callLog[2].calls) = 2

\* C14: for every candidate of a position, capital_roi = net_credit /
\* current_strike * 100 when the position's current strike is > 0 and 0
\* otherwise: the denominator is the position's strike, never the candidate's
\* own, so two candidates with the same net_credit have the same capital_roi
\* whatever their strikes.
C14_CapitalRoiOnCurrentStrike ==
    IsRollResult =>
        /\ \A n \in DOMAIN ret.options :
               ret.options[n].capital_roi =
                   IF lastOp.position.strike > 0
                   THEN Frac(ret.options[n].net_credit * 100, lastOp.position.strike)
                   ELSE Frac(0, 1)
        /\ \A n, m \in DOMAIN ret.options :
               ret.options[n].net_credit = ret.options[m].net_credit =>
                   ret.options[n].capital_roi = ret.options[m].capital_roi

\* current_strike = $100, buyback = $3: the candidate at strike $110 with a
\* mark of $5 has a capital ROI of 2.0, the same as the same-strike candidate
\* with that mark.
C14_Witness ==
    /\ IsRollResult
    /\ lastOp.position.strike = 100 * Dollar
    /\ ret.buyback_cost = 3 * Dollar
    /\ \E n, m \in DOMAIN ret.options :
          /\ ret.options[n].data.strike = 110 * Dollar
          /\ ret.options[n].data.mark = 5 * Dollar
          /\ ret.options[n].capital_roi.n = 2 * ret.options[n].capital_roi.d
          /\ ret.options[m].data.strike = 100 * Dollar
          /\ ret.options[m].net_credit = ret.options[n].net_credit
          /\ ret.options[m].capital_roi = ret.options[n].capital_roi

\* The candidate labelled 'Same Strike' of a result at the current strike.
SameStrikeCandidates ==
    {n \in DOMAIN ret.options :
        /\ ret.options[n].type = [label |-> "Same Strike"]
        /\ ret.options[n].data.strike = lastOp.position.strike}

\* The position {strike 100, expiry 14 days out, call, current_mark 2.00,
\* entry_credit 4.00, current_delta 0.04} under dte_threshold = 45, with a
\* replacement at the 35-day expiry whose same-strike quote has mark 6.00 and
\* delta 0.08.
EndToEndCase ==
    /\ lastOp.op = "find_roll_options"
    /\ lastOp.position.strike = 100 * Dollar
    /\ CurrentDte = 14
    /\ lastOp.position.right = "C"
    /\ lastOp.position.current_mark = Num(2 * Dollar)
    /\ lastOp.position.entry_credit = 4 * Dollar
    /\ lastOp.position.current_delta = Num(4)
    /\ lastOp.config.dte_threshold_for_alert = 45
    /\ Len(callLog) >= 3
    /\ callLog[2].ret = Str("20260205")
    /\ dte("20260205", today) = 35
    /\ ~IsNone(callLog[3].ret)
    /\ callLog[3].ret.mark = 6 * Dollar
    /\ callLog[3].ret.delta = Num(8)

\* C15: in the end-to-end case find_roll_options returns a result whose
\* candidate list holds a 'Same Strike' candidate with net_credit = 4.00,
\* premium_efficiency = net_credit / mark * 100 (66.7%), capital_roi = 4.0%
\* and annualized_roi = capital_roi * 365 / 35 (about 41.7%).
C15_EndToEnd ==
    EndToEndCase =>
        /\ IsRollResult
        /\ \E n \in SameStrikeCandidates :
              /\ ret.options[n].net_credit = 4 * Dollar
              /\ ret.options[n].premium_efficiency = Frac(4 * Dollar * 100, 6 * Dollar)
              /\ ret.options[n].capital_roi.n = 4 * ret.options[n].capital_roi.d
              /\ ret.options[n].annualized_roi.n * 35
                    = 4 * 365 * ret.options[n].annualized_roi.d

\* The end-to-end case with the quote fetched from the provider.
C15_Witness ==
    /\ EndToEndCase
    /\ callLog[3].from = "provider"
    /\ IsRollResult
    /\ SameStrikeCandidates # {}

\* The quote of the same-strike replacement was obtained at a net credit.
SameStrikeRetained ==
    /\ ~IsNone(callLog[3].ret)
    /\ callLog[3].ret.mark - ret.buyback_cost > 0

\* C33: find_roll_options attempts the same-strike replacement before any
\* delta-sampled candidate, so a retained same-strike candidate is the first
\* element of the list, and a delta-sampled candidate whose strike is within
\* 1.0 of an already-added candidate is skipped: no two candidates of a
\* returned list have strikes less than 1.0 apart.
C33_SameStrikeFirstNoDuplicates ==
    IsRollResult =>
        /\ callLog[3].fn = "get_option_quote"
        /\ callLog[3].strike = lastOp.position.strike
        /\ callLog[4].fn = "find_strikes_by_delta"
        /\ SameStrikeRetained =>
               /\ ret.options[1].data = callLog[3].ret
               /\ ret.options[1].type = [label |-> "Same Strike"]
        /\ ~SameStrikeRetained =>
               \A n \in DOMAIN ret.options :
                   \E x \in DOMAIN callLog[4].ret : ret.options[n].data = callLog[4].ret[x]
        /\ \A n \in DOMAIN ret.options : \A m \in DOMAIN ret.options :
               n # m => AbsInt(ret.options[n].data.strike - ret.options[m].data.strike)
                           >= Dollar

\* A list headed by the same-strike candidate with delta-sampled candidates
\* after it, the profitable quotes of the sample at the same strike and half
\* a dollar above it having been skipped.
C33_Witness ==
    /\ IsRollResult
    /\ SameStrikeRetained
    /\ Len(ret.options) >= 2
    /\ \E x \in DOMAIN callLog[4].ret :
          /\ callLog[4].ret[x].strike = lastOp.position.strike + 1
          /\ callLog[4].ret[x].mark - ret.buyback_cost > 0
    /\ \E x \in DOMAIN callLog[4].ret : callLog[4].ret[x].strike = lastOp.position.strike
    /\ \A n \in DOMAIN ret.options :
          ret.options[n].data.strike # lastOp.position.strike + 1

----------------------------------------------------------------------------
(* The strike finder: find_strikes_by_delta called once for any target       *)
(* delta, with or without a spot price, on any chain and quote book of the   *)
(* provider, on a cache that earlier fetches may have filled.                *)

\* A quote at $5 / $7 with the given delta.
TickerAt(d) == [bid |-> Num(10), ask |-> Num(14), last |-> NaN, close |-> NaN,
                modelGreeks |-> Greeks(Num(d))]

\* Strikes at and next to the ends of every band for a spot of $100: $49.50,
\* $50, $85, $90, $95, $100, $105, $110, $115, $150, $150.50, $250, $250.50.
WideChain == {99, 100, 170, 180, 190, 200, 210, 220, 230, 300, 301, 500, 501}

\* 13 strikes, $95 to $107.
DenseChain == {2 * n : n \in 95..107}

\* 21 strikes, $90 to $110.
LongStrikeChain == {2 * n : n \in 90..110}

FinderStrikes == WideChain \cup DenseChain \cup LongStrikeChain

\* The delta the provider reports at a strike in the varied book: 0.01 to
\* 0.25 for calls, -0.99 to -0.75 for puts.
VariedDelta(strike, right) ==
    IF right = "C" THEN ((strike \div Dollar) % 25) + 1
    ELSE -(100 - (((strike \div Dollar) % 25) + 1))

\* What the provider answers on the option quote of each strike: the same
\* delta near the low-delta target everywhere; the same delta near the higher
\* target everywhere; a delta that varies with the strike; and a book in
\* which a third of the strikes has no data and a third no greeks.
FinderBooks(right) ==
    {[strike \in FinderStrikes |-> Works(IF right = "C" THEN TickerMid ELSE TickerPut)],
     [strike \in FinderStrikes |-> Works(TickerAt(IF right = "C" THEN 28 ELSE -32))],
     [strike \in FinderStrikes |-> Works(TickerAt(VariedDelta(strike, right)))],
     [strike \in FinderStrikes |->
         CASE (strike \div Dollar) % 3 = 0 -> Fails
           [] (strike \div Dollar) % 3 = 1 -> Works(TickerClose)
           [] OTHER -> Works(TickerAt(VariedDelta(strike, right)))]}

\* The seconds a chain request that hangs takes before it answers.
SlowChainSecs == 200

\* What reqContractDetails does at the two venues.
FinderChains ==
    {<< [kind |-> "details", elapsed |-> 1, strikes |-> WideChain],
        [kind |-> "raises", elapsed |-> 1, strikes |-> {}] >>,
     << [kind |-> "raises", elapsed |-> 1, strikes |-> {}],
        [kind |-> "details", elapsed |-> 1, strikes |-> DenseChain] >>,
     << [kind |-> "details", elapsed |-> 1, strikes |-> LongStrikeChain],
        [kind |-> "details", elapsed |-> 1, strikes |-> WideChain] >>,
     << [kind |-> "details", elapsed |-> 1, strikes |-> {}],
        [kind |-> "details", elapsed |-> 1, strikes |-> WideChain] >>,
     << [kind |-> "raises", elapsed |-> 1, strikes |-> {}],
        [kind |-> "details", elapsed |-> 1, strikes |-> {}] >>,
     << [kind |-> "details", elapsed |-> SlowChainSecs, strikes |-> WideChain],
        [kind |-> "raises", elapsed |-> 1, strikes |-> {}] >>,
     << [kind |-> "raises", elapsed |-> SlowChainSecs, strikes |-> {}],
        [kind |-> "details", elapsed |-> 1, strikes |-> WideChain] >>,
     << [kind |-> "raises", elapsed |-> MaxTotalTime - 10, strikes |-> {}],
        [kind |-> "details", elapsed |-> 20, strikes |-> DenseChain] >>}

\* The seconds one quote takes at the provider: prompt, or slow enough for
\* the ceiling of the loop to be passed after three quotes.
FinderSecs == {3, 25}

FinderMarkets(right) ==
    [stock : {StockWorks}, expiries : {ExpiryFound}, chain : FinderChains,
     quotes : FinderBooks(right), secs : FinderSecs]

\* The low-delta targets of the configuration and a higher one.
TargetDeltas(right) == IF right = "C" THEN {10, 30} ELSE {-90, -30}

\* The spot price get_stock_price returned: None, or $100.
Spots == {None, Num(100 * Dollar)}

InitStrikes ==
    /\ now = 0
    /\ global_cache = None
    /\ putAt = EmptyDict
    /\ lastGet = NoGet
    /\ lastOp = [op |-> "init"]
    /\ today = 0
    /\ ret = None
    /\ ibLog = << >>
    /\ fetched = EmptyDict
    /\ callLog = << >>
    /\ batch = [phase |-> "idle"]
    /\ threads = << >>
    /\ heap = << >>
    /\ monitor = << >>
    /\ alarm = << >>

find_strikes_by_delta(expiry, target_delta, spot, current_strike, right, market) ==
    /\ lastOp.op # "find_strikes_by_delta"
    /\ \E r \in {FindStrikesByDelta(global_cache, now, today, "XYZ", expiry, target_delta,
                                     spot, current_strike, right, market)} :
           /\ global_cache' = r.g
           /\ ret' = [k |-> "list", v |-> r.options]
           /\ ibLog' = r.calls
           /\ callLog' = << [fn |-> "find_strikes_by_delta", ret |-> r.options,
                             bands |-> r.bands, samples |-> r.samples,
                             fetched |-> r.fetched, collected |-> r.collected,
                             calls |-> r.calls, observed |-> r.observed,
                             spent |-> r.spent, asked_at |-> r.asked_at,
                             fetched_at |-> r.fetched_at] >>
           /\ now' = r.t
    /\ lastOp' = [op |-> "find_strikes_by_delta", expiry |-> expiry,
                  target_delta |-> target_delta, spot |-> spot,
                  current_strike |-> current_strike, right |-> right, market |-> market,
                  cache_before |-> global_cache]
    /\ UNCHANGED <<putAt, lastGet, today, fetched, batchVars, threadVars, procVars>>

NextStrikes ==
    \/ /\ lastOp.op # "find_strikes_by_delta"
       /\ get_option_quote("XYZ", "20260205", 200, "C", TRUE, Works(TickerMid))
    \/ /\ lastOp.op # "find_strikes_by_delta"
       /\ get_option_quote("XYZ", "20260205", 210, "C", TRUE, Works(TickerLow))
    \/ \E right \in Rights, spot \in Spots :
          \E target_delta \in TargetDeltas(right), market \in FinderMarkets(right) :
             find_strikes_by_delta("20260205", target_delta, spot, 100 * Dollar, right, market)

SpecStrikes == InitStrikes /\ [][NextStrikes]_vars

\* The last call of find_strikes_by_delta and what it recorded.
FinderCalled == lastOp.op = "find_strikes_by_delta"

\* The venues of the last call whose contract details list strikes, in the
\* order of the loop: the n-th band and the n-th sample are the n-th one's.
ListingVenues ==
    SelectSeq(<< 1, 2 >>, LAMBDA i : /\ lastOp.market.chain[i].kind = "details"
                                     /\ lastOp.market.chain[i].strikes # {})

\* The strikes of a sequence.
StrikeSet(seq) == {seq[n] : n \in DOMAIN seq}

\* The strikes k of a universe inside the band in exact arithmetic.
StatedBand(universe, spot, right, target_delta) ==
    {strike \in universe :
        IF right = "C"
        THEN IF target_delta < 15
             THEN 105 * spot <= 100 * strike /\ 100 * strike <= 115 * spot
             ELSE spot - 50 * Dollar <= strike /\ strike <= spot + 150 * Dollar
        ELSE IF target_delta < -85
             THEN 85 * spot <= 100 * strike /\ 100 * strike <= 95 * spot
             ELSE spot - 150 * Dollar <= strike /\ strike <= spot + 50 * Dollar}

\* C16: when a spot price is available, the band chosen by
\* find_strikes_by_delta is exactly the strikes k of the universe with
\* spot*1.05 <= k <= spot*1.15 for calls with target_delta < 0.15, spot-50 <=
\* k <= spot+150 for calls otherwise, spot*0.85 <= k <= spot*0.95 for puts
\* with target_delta < -0.85, spot-150 <= k <= spot+50 for puts otherwise:
\* calls, spot = 100, target 0.10 gives [105, 115], both ends included.
C16_BandAsStated ==
    (FinderCalled /\ HasSpot(lastOp.spot)) =>
        \A n \in DOMAIN callLog[1].bands :
            StrikeSet(callLog[1].bands[n])
                = StatedBand(lastOp.market.chain[ListingVenues[n]].strikes, lastOp.spot.v,
                             lastOp.right, lastOp.target_delta)

\* The sample is the band at the indices floor(i * n / 10), i = 0..9.
TenOfBand(sample, band) ==
    /\ Len(sample) = 10
    /\ \A i \in 0..9 : sample[i + 1] = band[((i * Len(band)) \div 10) + 1]
    /\ \A i, j \in 1..10 : i < j => sample[i] < sample[j]

\* C17: with a spot price, a band of at most 10 strikes is queried in full
\* and a band of n > 10 strikes is reduced to exactly 10 distinct strikes of
\* the band, in ascending order, taken at the indices floor(i*n/10) for i =
\* 0..9; the strikes queried at a venue are strikes of its sample in the
\* sample's order, so no more than 10 per venue.
C17_SampleOfBand ==
    (FinderCalled /\ HasSpot(lastOp.spot)) =>
        \A n \in DOMAIN callLog[1].bands :
            /\ Len(callLog[1].bands[n]) <= 10 => callLog[1].samples[n] = callLog[1].bands[n]
            /\ Len(callLog[1].bands[n]) > 10
                  => TenOfBand(callLog[1].samples[n], callLog[1].bands[n])
            /\ Len(callLog[1].fetched[n]) <= 10
            /\ callLog[1].fetched[n]
                  = SubSeq(callLog[1].samples[n], 1, Len(callLog[1].fetched[n]))

\* A band of 13 strikes reduced to 10, all of them queried, and a band of 10
\* strikes queried in full.
C17_Witness ==
    /\ FinderCalled
    /\ HasSpot(lastOp.spot)
    /\ \E n \in DOMAIN callLog[1].bands :
          /\ Len(callLog[1].bands[n]) = 13
          /\ callLog[1].samples[n] = << 190, 192, 194, 196, 200, 202, 204, 208, 210, 212 >>
          /\ callLog[1].fetched[n] = callLog[1].samples[n]

\* A band of 10 strikes queried in full.
C17_FullBand ==
    /\ FinderCalled
    /\ HasSpot(lastOp.spot)
    /\ \E n \in DOMAIN callLog[1].bands :
          /\ Len(callLog[1].bands[n]) = 10
          /\ callLog[1].fetched[n] = callLog[1].bands[n]

\* A band of 10 strikes of which the first 8 are queried: their quotes are
\* near the target and the loop stops.
C17_StoppedEarly ==
    /\ FinderCalled
    /\ HasSpot(lastOp.spot)
    /\ \E n \in DOMAIN callLog[1].bands :
          /\ Len(callLog[1].bands[n]) = 10
          /\ Len(callLog[1].fetched[n]) = TargetGoodOptions

\* The list find_strikes_by_delta returned in the last call, and the quotes
\* with a delta it had collected at the returning venue.
ReturnedQuotes == callLog[1].ret

CollectedQuotes == callLog[1].collected

\* The collected quotes that are not in the returned list.
LeftOutQuotes ==
    {CollectedQuotes[n] : n \in DOMAIN CollectedQuotes}
        \ {ReturnedQuotes[n] : n \in DOMAIN ReturnedQuotes}

\* C18: the list returned by find_strikes_by_delta has at most 12 quotes,
\* every one of them has a non-null delta, and it is sorted in ascending order
\* of | |delta| - |target_delta| |; it holds fetched quotes only, and no
\* fetched quote left out of the list is strictly closer to the target than a
\* quote in the list.
C18_ClosestTwelve ==
    FinderCalled =>
        /\ Len(ReturnedQuotes) <= 12
        /\ \A n \in DOMAIN ReturnedQuotes :
              /\ ~IsNone(ReturnedQuotes[n].delta)
              /\ \E m \in DOMAIN CollectedQuotes : CollectedQuotes[m] = ReturnedQuotes[n]
        /\ \A n, m \in DOMAIN ReturnedQuotes :
              n < m => DeltaDistance(ReturnedQuotes[n], lastOp.target_delta)
                          <= DeltaDistance(ReturnedQuotes[m], lastOp.target_delta)
        /\ \A q \in LeftOutQuotes : \A n \in DOMAIN ReturnedQuotes :
              ~(DeltaDistance(q, lastOp.target_delta)
                  < DeltaDistance(ReturnedQuotes[n], lastOp.target_delta))

\* 20 quotes collected at distances that differ, 12 of them returned, the
\* fetch order being another than the returned order.
C18_Witness ==
    /\ FinderCalled
    /\ Len(CollectedQuotes) = 20
    /\ Len(ReturnedQuotes) = 12
    /\ LeftOutQuotes # {}
    /\ ReturnedQuotes # SubSeq(CollectedQuotes, 1, 12)
    /\ DeltaDistance(ReturnedQuotes[1], lastOp.target_delta)
          < DeltaDistance(ReturnedQuotes[12], lastOp.target_delta)

\* Of the first j quotes fetched for the n-th sample of the last call, those
\* whose delta is within 0.05 of the target.
GoodAmong(n, j) ==
    Cardinality({x \in 1..j :
        /\ ~IsNone(callLog[1].observed[n][x])
        /\ AbsInt(callLog[1].observed[n][x].v - lastOp.target_delta) <= DeltaTolerance})

\* The strikes fetched for the n-th sample are its first strikes, in its
\* ascending order, and none is fetched once 8 quotes within 0.05 of the
\* target have been found.
FetchedInOrder(n) ==
    /\ callLog[1].fetched[n] = SubSeq(callLog[1].samples[n], 1, Len(callLog[1].fetched[n]))
    /\ \A x \in DOMAIN callLog[1].fetched[n] : \A y \in DOMAIN callLog[1].fetched[n] :
           x < y => callLog[1].fetched[n][x] < callLog[1].fetched[n][y]
    /\ \A j \in 1..(Len(callLog[1].fetched[n]) - 1) : GoodAmong(n, j) < TargetGoodOptions

\* The loop over the n-th sample has ended before the end of the sample.
EndedEarly(n) == Len(callLog[1].fetched[n]) < Len(callLog[1].samples[n])

\* C30 as stated: in the sequential mode of find_strikes_by_delta, as soon as
\* 8 fetched quotes with |observed delta - target delta| <= 0.05 have been
\* found, no further strike of the sample is fetched; before that point every
\* strike of the sample is fetched in ascending order.
C30_EarlyExitOnly ==
    FinderCalled =>
        \A n \in DOMAIN callLog[1].samples :
            /\ FetchedInOrder(n)
            /\ EndedEarly(n) => GoodAmong(n, Len(callLog[1].fetched[n])) = TargetGoodOptions

\* C30, amended: in the sequential mode of find_strikes_by_delta the strikes
\* of the sample are fetched in ascending order, none is fetched once 8
\* quotes within 0.05 of the target have been found, and before that point
\* the fetching ends only at the end of the sample or when more than 60
\* seconds have passed since the loop began.
C30_EarlyExitOrCeiling ==
    FinderCalled =>
        \A n \in DOMAIN callLog[1].samples :
            /\ FetchedInOrder(n)
            /\ EndedEarly(n) =>
                   \/ GoodAmong(n, Len(callLog[1].fetched[n])) = TargetGoodOptions
                   \/ callLog[1].spent[n] > MaxDuration

\* A sample of 10 strikes of which 8 have been fetched, all 8 within the
\* tolerance, in less than the 60 seconds of the ceiling.
C30_Witness ==
    /\ FinderCalled
    /\ \E n \in DOMAIN callLog[1].samples :
          /\ Len(callLog[1].samples[n]) = 10
          /\ Len(callLog[1].fetched[n]) = TargetGoodOptions
          /\ GoodAmong(n, TargetGoodOptions) = TargetGoodOptions
          /\ callLog[1].spent[n] <= MaxDuration

\* A sample left after three slow fetches, not one of 8 good quotes found.
C30_CeilingPassed ==
    /\ FinderCalled
    /\ \E n \in DOMAIN callLog[1].samples :
          /\ EndedEarly(n)
          /\ Len(callLog[1].fetched[n]) = 3
          /\ GoodAmong(n, 3) < TargetGoodOptions
          /\ callLog[1].spent[n] > MaxDuration

\* No request to the provider is started once more than 180 seconds have
\* passed since find_strikes_by_delta began.
C31_AbortedPastOverallCeiling ==
    FinderCalled =>
        /\ \A x \in DOMAIN callLog[1].asked_at : callLog[1].asked_at[x] <= MaxTotalTime
        /\ \A n \in DOMAIN callLog[1].fetched_at :
               \A x \in DOMAIN callLog[1].fetched_at[n] :
                   callLog[1].fetched_at[n][x] <= MaxTotalTime

\* No quote fetch is started once more than 60 seconds have passed since the
\* loop of the venue began, and the quotes a venue has collected by then are
\* returned, sorted by their distance to the target.
C31_VenueCeiling ==
    FinderCalled =>
        /\ \A n \in DOMAIN callLog[1].fetched_at :
               \A x \in DOMAIN callLog[1].fetched_at[n] :
                   callLog[1].fetched_at[n][x] - callLog[1].fetched_at[n][1] <= MaxDuration
        /\ CollectedQuotes # << >> =>
               /\ ReturnedQuotes # << >>
               /\ {ReturnedQuotes[x] : x \in DOMAIN ReturnedQuotes}
                      \subseteq {CollectedQuotes[x] : x \in DOMAIN CollectedQuotes}
               /\ Len(CollectedQuotes) <= TopN => Len(ReturnedQuotes) = Len(CollectedQuotes)
               /\ \A x \in DOMAIN ReturnedQuotes : \A y \in DOMAIN ReturnedQuotes :
                      x < y => DeltaDistance(ReturnedQuotes[x], lastOp.target_delta)
                                  <= DeltaDistance(ReturnedQuotes[y], lastOp.target_delta)

\* C31: find_strikes_by_delta enforces its own deadlines: once the overall
\* ceiling (180 s) is exceeded the operation is aborted and returns what has
\* been collected or an empty list, and once the per-venue ceiling (60 s) is
\* exceeded no further quote fetch is started in that venue's loop while the
\* quotes already collected are still sorted and returned.
C31_EnforcesDeadlines ==
    /\ C31_AbortedPastOverallCeiling
    /\ C31_VenueCeiling

\* The check at the head of the venue loop has found the overall ceiling
\* passed: the second venue is not asked and the empty list is returned.
C31_StoppedAtVenueHead ==
    /\ FinderCalled
    /\ Len(callLog[1].asked_at) = 1
    /\ lastOp.market.chain[1].elapsed > MaxTotalTime
    /\ ReturnedQuotes = << >>

\* The loop of a venue has been left at its ceiling with quotes collected,
\* and they are returned.
C31_VenueCeilingPassed ==
    /\ FinderCalled
    /\ \E n \in DOMAIN callLog[1].samples : EndedEarly(n) /\ callLog[1].spent[n] > MaxDuration
    /\ Len(ReturnedQuotes) = 3

----------------------------------------------------------------------------
(* The cache under several threads.  GreeksCache.get executes              *)
(* self.stats['total_requests'] += 1 before it takes the lock: the read of   *)
(* the counter and the write of the incremented value are two steps that     *)
(* other threads may interleave with.  Everything inside "with self.lock" is *)
(* one step, as no thread waits while it holds the lock.                     *)

Threads == {"t1", "t2"}

MaxGets == 2

ThreadKey == MakeKey("XYZ", "20260205", 200, "C")

ThreadData == [k |-> "dict", mark |-> Num(12)]

IdleThread == [pc |-> "idle", read |-> 0, stale |-> FALSE, gets |-> 0]

\* One cache object with an entry stored at time 0, seen right away or after
\* the entry's time to live.
InitThreads ==
    /\ now \in {0, MaxTime}
    /\ global_cache = GreeksCachePut(NewGreeksCache(OptionCacheTtl), 0, ThreadKey, ThreadData)
    /\ putAt = DictSet(EmptyDict, ThreadKey, 0)
    /\ lastGet = NoGet
    /\ lastOp = [op |-> "init"]
    /\ today = 0
    /\ ret = None
    /\ ibLog = << >>
    /\ fetched = EmptyDict
    /\ callLog = << >>
    /\ batch = [phase |-> "idle"]
    /\ threads = [pos |-> [t \in Threads |-> IdleThread], completed |-> 0, reset |-> FALSE]
    /\ heap = << >>
    /\ monitor = << >>
    /\ alarm = << >>

\* get, line 47, first half: the thread reads self.stats['total_requests'].
get_reads_counter(t) ==
    /\ threads.pos[t].pc = "idle"
    /\ threads.pos[t].gets < MaxGets
    /\ threads' = [threads EXCEPT !.pos[t] = [@ EXCEPT !.pc = "read",
                                     !.read = global_cache.stats.total_requests,
                                     !.stale = FALSE]]
    /\ lastOp' = [op |-> "get"]
    /\ UNCHANGED <<rollVars, batchVars, procVars, cacheVars, now, fetchVars>>

\* get, line 47, second half: the thread writes the value it read plus one
\* into the dict it read it from, which reset_stats may have replaced since.
get_writes_counter(t) ==
    /\ threads.pos[t].pc = "read"
    /\ threads' = [threads EXCEPT !.pos[t].pc = "written"]
    /\ global_cache' = IF threads.pos[t].stale THEN global_cache
                       ELSE [global_cache EXCEPT
                                !.stats.total_requests = threads.pos[t].read + 1]
    /\ lastOp' = [op |-> "get"]
    /\ UNCHANGED <<rollVars, batchVars, procVars, putAt, lastGet, now, fetchVars>>

\* get, lines 51-67: the lookup under the lock, which leaves total_requests
\* alone, and the return.
get_under_lock(t) ==
    /\ threads.pos[t].pc = "written"
    /\ \E r \in {GreeksCacheGet(global_cache, now, ThreadKey)} :
          /\ global_cache' = [r.self EXCEPT
                                 !.stats.total_requests = global_cache.stats.total_requests]
          /\ lastGet' = GetRecord(ThreadKey, r.ret, r.tally)
    /\ threads' = [threads EXCEPT !.pos[t] = [@ EXCEPT !.pc = "idle", !.gets = @ + 1],
                                  !.completed = @ + 1]
    /\ lastOp' = [op |-> "get"]
    /\ UNCHANGED <<rollVars, batchVars, procVars, putAt, now, fetchVars>>

\* reset_stats by some thread: self.stats becomes a new dict, and a thread
\* that has read the counter still holds the old one.
thread_reset_stats ==
    /\ ~threads.reset
    /\ global_cache' = GreeksCacheResetStats(global_cache)
    /\ threads' = [threads EXCEPT
                      !.pos = [t \in Threads |->
                                  IF threads.pos[t].pc = "read"
                                  THEN [threads.pos[t] EXCEPT !.stale = TRUE]
                                  ELSE threads.pos[t]],
                      !.reset = TRUE]
    /\ lastOp' = [op |-> "reset_stats"]
    /\ UNCHANGED <<rollVars, batchVars, procVars, now, putAt, lastGet, fetchVars>>

NextThreads ==
    \/ \E t \in Threads : get_reads_counter(t)
    \/ \E t \in Threads : get_writes_counter(t)
    \/ \E t \in Threads : get_under_lock(t)
    \/ put(ThreadKey, ThreadData)
    \/ clear
    \/ clear_expired
    \/ thread_reset_stats

SpecThreads == InitThreads /\ [][NextThreads]_vars

\* No get is in progress.
AllIdle == \A t \in Threads : threads.pos[t].pc = "idle"

\* C19: under any interleaving of get, put, clear, clear_expired and
\* reset_stats calls from several threads no counter update is lost: after N
\* completed get calls, and no reset, total_requests = N.
C19_NoLostUpdate ==
    (AllIdle /\ ~threads.reset) => global_cache.stats.total_requests = threads.completed

\* A step of SpecCache that is a call of get.
IsGetStep == global_cache'.stats.total_requests = global_cache.stats.total_requests + 1

\* The counters other than total_requests change by the given amounts.
Tallied(hits, misses, expired) ==
    /\ global_cache'.stats.hits = global_cache.stats.hits + hits
    /\ global_cache'.stats.misses = global_cache.stats.misses + misses
    /\ global_cache'.stats.expired = global_cache.stats.expired + expired

\* The get before the one being made was on the same key, met an entry older
\* than the TTL, and no put on the key has happened since.
FollowsExpiredGet(key) ==
    /\ lastGet.tally = "expired"
    /\ lastGet.key = key
    /\ key \in DOMAIN putAt => Num(putAt[key]) = lastGet.stored

\* The get of a step on key: an entry older than the TTL is evicted, None is
\* returned and 'expired' alone is incremented; after such a get, with no put
\* in between, the get is a miss.
GetOnExpired(key) ==
    /\ (/\ key \in DOMAIN global_cache.cache
        /\ now - global_cache.cache[key].timestamp > global_cache.ttl_seconds)
          => /\ key \notin DOMAIN global_cache'.cache
             /\ IsNone(lastGet'.ret)
             /\ Tallied(0, 0, 1)
    /\ FollowsExpiredGet(key)
          => /\ IsNone(lastGet'.ret)
             /\ Tallied(0, 1, 0)

\* C20: a get on a key whose entry is older than the TTL evicts that entry
\* from the map, returns None, increments 'expired' by exactly one and leaves
\* 'hits' and 'misses' unchanged; a following get on the same key without an
\* intervening put is a plain miss: 'misses' + 1, 'expired' unchanged.
C20_ExpiredThenMiss == [][IsGetStep => GetOnExpired(lastGet'.key)]_vars

\* A get that is a miss right after a get on the same key that met an expired
\* entry, the entry's put being the last one on the key.
C20_Witness ==
    /\ lastOp.op = "get"
    /\ lastGet.tally = "misses"
    /\ lastGet.prev.tally = "expired"
    /\ lastGet.prev.key = lastGet.key
    /\ IsNum(lastGet.stored)
    /\ lastGet.stored = lastGet.prev.stored
    /\ global_cache.stats.expired = 1
    /\ global_cache.stats.misses = 1

----------------------------------------------------------------------------
(* The cache and the dicts of its callers as objects.  put stores            *)
(* data.copy() and get returns data.copy(): the dict a caller passed, the    *)
(* entry of the cache and the dict a caller got back are separate objects.   *)
(* heap.objects lists the dict objects by reference; an entry of the cache   *)
(* holds the reference of its dict.  The quotes of the program are flat      *)
(* dicts of floats and strings, so copy() shares nothing mutable.            *)

MaxObjects == 4

\* No copy: the same object under the same reference.
DictCopyMutant(objects, ref) == [objects |-> objects, ref |-> ref]

\* dict.copy(): a new object with the items of the object at ref.
DictCopy(objects, ref) ==
    [objects |-> Append(objects, objects[ref]), ref |-> Len(objects) + 1]

Ref(n) == [k |-> "ref", v |-> n]

IsRef(x) == x.k = "ref"

\* The objects not tied to the entry of key any more, once key is stored anew.
Untied(origin, key) ==
    [i \in DOMAIN origin |-> IF origin[i] = Str(key) THEN None ELSE origin[i]]

InitObjects ==
    /\ now = 0
    /\ \E ttl \in {StockCacheTtl, OptionCacheTtl} :
          global_cache = NewGreeksCache(ttl)
    /\ putAt = EmptyDict
    /\ lastGet = NoGet
    /\ lastOp = [op |-> "init"]
    /\ today = 0
    /\ ret = None
    /\ ibLog = << >>
    /\ fetched = EmptyDict
    /\ callLog = << >>
    /\ batch = [phase |-> "idle"]
    /\ threads = << >>
    /\ heap = [objects |-> << >>, origin |-> << >>, held |-> {}, changed |-> {},
               put_value |-> EmptyDict]
    /\ monitor = << >>
    /\ alarm = << >>

\* A caller builds a dict: data = {...}.
build_dict(data) ==
    /\ Len(heap.objects) < MaxObjects
    /\ heap' = [heap EXCEPT !.objects = Append(@, data),
                            !.held = @ \cup {Len(heap.objects) + 1},
                            !.origin = Append(@, None)]
    /\ lastOp' = [op |-> "build_dict"]
    /\ UNCHANGED <<now, cacheVars, fetchVars, rollVars, batchVars, threadVars, monitor,
                   alarm>>

\* cache.put(symbol, expiry, strike, right, data) with a dict the caller
\* holds: self.cache[key] = (data.copy(), datetime.now()).
put_dict(key, ref) ==
    /\ ref \in heap.held
    /\ Len(heap.objects) < MaxObjects
    /\ \E c \in {DictCopy(heap.objects, ref)} :
          /\ global_cache' = GreeksCachePut(global_cache, now, key, Ref(c.ref))
          /\ heap' = [heap EXCEPT
                         !.objects = c.objects,
                         !.origin = [i \in DOMAIN c.objects |->
                                        IF i = ref THEN Str(key)
                                        ELSE IF i > Len(heap.objects) THEN None
                                        ELSE Untied(heap.origin, key)[i]],
                         !.changed = @ \ {ref},
                         !.put_value = DictSet(@, key, heap.objects[ref])]
    /\ lastOp' = [op |-> "put", key |-> Str(key)]
    /\ UNCHANGED <<now, putAt, lastGet, fetchVars, rollVars, batchVars, threadVars, monitor,
                   alarm>>

\* cache.get(symbol, expiry, strike, right): None, or data.copy(), which the
\* caller then holds.
get_dict(key) ==
    /\ global_cache.stats.total_requests < MaxRequests
    /\ Len(heap.objects) < MaxObjects
    /\ \E r \in {GreeksCacheGet(global_cache, now, key)} :
          /\ global_cache' = r.self
          /\ lastOp' = [op |-> "get", key |-> Str(key), tally |-> r.tally,
                        after |-> [op |-> lastOp.op,
                                   key |-> IF lastOp.op \in {"get", "put"} THEN lastOp.key
                                           ELSE None,
                                   tally |-> IF lastOp.op = "get" THEN lastOp.tally
                                             ELSE "none",
                                   ret |-> ret]]
          /\ IF IsNone(r.ret)
             THEN /\ ret' = None
                  /\ heap' = heap
             ELSE \E c \in {DictCopy(heap.objects, r.ret.v)} :
                     /\ ret' = Ref(c.ref)
                     /\ heap' = [heap EXCEPT
                                    !.objects = c.objects,
                                    !.held = @ \cup {c.ref},
                                    !.origin = [i \in DOMAIN c.objects |->
                                                   IF i = c.ref THEN Str(key)
                                                   ELSE heap.origin[i]]]
    /\ UNCHANGED <<now, putAt, lastGet, today, ibLog, fetched, rollVars, batchVars,
                   threadVars, monitor, alarm>>

\* A caller changes an item of a dict it holds: data['mark'] = value.
mutate_dict(ref, data) ==
    /\ ref \in heap.held \ heap.changed
    /\ heap.objects[ref] # data
    /\ heap' = [heap EXCEPT !.objects[ref] = data, !.changed = @ \cup {ref}]
    /\ lastOp' = [op |-> "mutate_dict"]
    /\ UNCHANGED <<now, cacheVars, fetchVars, rollVars, batchVars, threadVars, monitor,
                   alarm>>

\* The quote the callers of this specification store and look up.
ObjectKeys == {MakeKey("XYZ", "20260205", 200, "C")}

NextObjects ==
    \/ Tick
    \/ \E data \in CacheData : build_dict(data)
    \/ \E key \in ObjectKeys, ref \in 1..MaxObjects : put_dict(key, ref)
    \/ \E key \in ObjectKeys : get_dict(key)
    \/ \E ref \in 1..MaxObjects, data \in CacheData : mutate_dict(ref, data)

SpecObjects == InitObjects /\ [][NextObjects]_vars

\* The dicts the caller holds that belong to the entry now stored under key
\* (the dict passed to its put, the dicts its gets returned) and that the
\* caller has changed since.
ChangedSince(key, via) ==
    {ref \in heap.changed :
        /\ heap.origin[ref] = Str(key)
        /\ heap.objects[ref] # heap.put_value[key]
        /\ (via = "put") = (ref < global_cache.cache[key].data.v)}

\* C21: the cache owns its copy of every quote.  Whatever the callers do to
\* the dict they passed to put or to a dict that get returned, every entry
\* holds, and get returns, the items its put was given; only a put replaces
\* them.
C21_CacheOwnsItsCopy ==
    /\ \A key \in DOMAIN global_cache.cache :
          /\ global_cache.cache[key].data.v \notin heap.held
          /\ heap.objects[global_cache.cache[key].data.v] = heap.put_value[key]
    /\ (lastOp.op = "get" /\ IsRef(ret)) =>
          \E key \in ObjectKeys :
             /\ lastOp.key = Str(key)
             /\ heap.objects[ret.v] = heap.put_value[key]

C21_Witness ==
    /\ lastOp.op = "get"
    /\ IsRef(ret)
    /\ \E key \in ObjectKeys :
          /\ lastOp.key = Str(key)
          /\ ChangedSince(key, "put") # {}
          /\ ChangedSince(key, "get") # {}

\* C22: two calls of get in immediate succession on the same key return
\* equal values: None both times, or two distinct dict objects with the same
\* items.
C22_GetTwiceEqual ==
    (lastOp.op = "get" /\ lastOp.after.op = "get" /\ lastOp.after.key = lastOp.key) =>
        \/ IsNone(lastOp.after.ret) /\ IsNone(ret)
        \/ /\ IsRef(lastOp.after.ret)
           /\ IsRef(ret)
           /\ ret.v # lastOp.after.ret.v
           /\ heap.objects[ret.v] = heap.objects[lastOp.after.ret.v]

C22_Witness ==
    /\ lastOp.op = "get"
    /\ lastOp.after.op = "get"
    /\ lastOp.after.key = lastOp.key
    /\ IsRef(lastOp.after.ret)
    /\ IsRef(ret)
    /\ ret.v # lastOp.after.ret.v

\* The same with an entry that expired before the first of the two calls.
C22_WitnessExpired ==
    /\ lastOp.op = "get"
    /\ lastOp.after.op = "get"
    /\ lastOp.after.key = lastOp.key
    /\ lastOp.after.tally = "expired"
    /\ lastOp.tally = "misses"

----------------------------------------------------------------------------
(* The batch: run_single_check, one pass over the positions of the account.  *)

Platforms == {"posix", "win32"}

ZeroCounters ==
    [options_found |-> 0, skip_expiring |-> 0, error |-> 0, exception |-> 0,
     not_ready |-> 0, no_options |-> 0]

BatchConfig ==
    [dte_threshold_for_alert |-> 7, target_delta_call |-> 10, target_delta_put |-> -90]

\* A position ready to roll, one expiring tomorrow without a mark, one with a
\* mark missing, and one above the DTE threshold.
BatchPosition(expiry, current_mark) ==
    [k |-> "dict", symbol |-> "XYZ", strike |-> 200, expiry |-> expiry, right |-> "C",
     contracts |-> 1, entry_credit |-> 8, current_mark |-> current_mark,
     current_delta |-> None]

BatchPositions ==
    {BatchPosition("20260103", Num(4)), BatchPosition("20260102", None),
     BatchPosition("20260103", None), BatchPosition("20260115", Num(4))}

MaxPositions == 2

PositionLists ==
    UNION {[1..n -> BatchPositions] : n \in 0..MaxPositions}

BatchMarkets ==
    [stock : {StockWorks}, expiries : {ExpiryFound, ExpiryMissing},
     chain : {ChainListed}, quotes : QuoteBooks, secs : QuoteSecs]

Environments ==
    [log_opens : BOOLEAN, analysis : {"returns", "raises", "raises_as_alarm_fires"},
     market : BatchMarkets]

InitBatch ==
    /\ now = 0
    /\ global_cache = None
    /\ putAt = EmptyDict
    /\ lastGet = NoGet
    /\ lastOp = [op |-> "init"]
    /\ today = 0
    /\ ret = None
    /\ ibLog = << >>
    /\ fetched = EmptyDict
    /\ callLog = << >>
    /\ batch = [phase |-> "idle"]
    /\ threads = << >>
    /\ heap = << >>
    /\ monitor = << >>
    /\ alarm = << >>

\* The value run_single_check returns, the connection closed by the finally
\* clause where one was opened.
Returned(success, positions, idx, counters, roll_opportunities, aborted_at) ==
    [phase |-> "returned", success |-> success, positions |-> positions, idx |-> idx,
     counters |-> counters, roll_opportunities |-> roll_opportunities,
     aborted_at |-> aborted_at, connected |-> FALSE]

\* run_single_check up to the loop: the market-hours check, connect_ib and
\* get_current_positions.
start_check(platform, market_open, connects, positions_raise, positions) ==
    /\ batch.phase = "idle"
    /\ batch' =
          IF ~market_open \/ ~connects
          THEN Returned(FALSE, << >>, 1, ZeroCounters, << >>, 0)
          ELSE IF positions_raise
          THEN Returned(FALSE, << >>, 1, ZeroCounters, << >>, 0)
          ELSE IF positions = << >>
          THEN Returned(TRUE, << >>, 1, ZeroCounters, << >>, 0)
          ELSE [phase |-> "loop", platform |-> platform, positions |-> positions,
                idx |-> 1, counters |-> ZeroCounters, roll_opportunities |-> << >>,
                aborted_at |-> 0, connected |-> TRUE]
    /\ lastOp' = [op |-> "start_check"]
    /\ UNCHANGED <<now, cacheVars, fetchVars, rollVars, threadVars, procVars>>

\* One iteration of "for idx, pos in enumerate(positions, 1)".  An exception
\* that leaves process_position reaches the except clause of
\* run_single_check, which returns False.
process_position(env) ==
    /\ batch.phase = "loop"
    /\ batch.idx <= Len(batch.positions)
    /\ \E r \in {ProcessPosition(global_cache, now, today, batch.positions[batch.idx],
                                  BatchConfig, batch.platform, env)} :
           /\ global_cache' = r.global_cache
           /\ now' = r.t
           /\ ibLog' = r.calls
           /\ ret' = r.data
           /\ batch' =
                 IF r.raised # ""
                 THEN Returned(FALSE, batch.positions, batch.idx, batch.counters,
                               batch.roll_opportunities, batch.idx)
                 ELSE [batch EXCEPT
                          !.idx = batch.idx + 1,
                          !.counters[r.result_type] = batch.counters[r.result_type] + 1,
                          !.roll_opportunities =
                              IF r.result_type = "options_found" /\ ~IsNone(r.data)
                              THEN Append(batch.roll_opportunities, r.data)
                              ELSE batch.roll_opportunities]
           /\ lastOp' = [op |-> "process_position", env |-> env, raised |-> r.raised,
                         result_type |-> r.result_type]
    /\ UNCHANGED <<putAt, lastGet, today, fetched, rollVars, threadVars, procVars>>

\* run_single_check after the loop: the cache statistics are read, the
\* display is updated and True is returned.
finish_check ==
    /\ batch.phase = "loop"
    /\ batch.idx > Len(batch.positions)
    /\ global_cache' = GetCache(global_cache, OptionCacheTtl)
    /\ batch' = Returned(TRUE, batch.positions, batch.idx, batch.counters,
                         batch.roll_opportunities, 0)
    /\ lastOp' = [op |-> "finish_check"]
    /\ UNCHANGED <<now, putAt, lastGet, fetchVars, rollVars, threadVars, procVars>>

NextBatch ==
    \/ \E platform \in Platforms, market_open \in BOOLEAN, connects \in BOOLEAN,
          positions_raise \in BOOLEAN, positions \in PositionLists :
          start_check(platform, market_open, connects, positions_raise, positions)
    \/ \E env \in Environments : process_position(env)
    \/ finish_check

SpecBatch == InitBatch /\ [][NextBatch]_vars

RECURSIVE SumCounters(_, _)

SumCounters(counters, names) ==
    IF names = {} THEN 0
    ELSE LET name == CHOOSE x \in names : TRUE
         IN  counters[name] + SumCounters(counters, names \ {name})

\* C6, as stated: once the pass is in its loop no exception raised while a
\* position is evaluated aborts it: every evaluation adds one to exactly one
\* counter, and run_single_check returns only after the last position.
C6_ExceptionNeverAbortsBatch ==
    (batch.phase \in {"loop", "returned"} /\ batch.positions # << >>) =>
        /\ batch.aborted_at = 0
        /\ SumCounters(batch.counters, DOMAIN batch.counters) = batch.idx - 1
        /\ batch.phase = "returned" => batch.idx = Len(batch.positions) + 1

----------------------------------------------------------------------------
(* ib_connection.py, portfolio.py and roll_monitor_live.py: main             *)

\* connect_ib(host, port, client_id, readonly=True, realtime=False)
READONLY_DEFAULT == TRUE

\* A connection opened for trading: readonly=False handed to ib.connect.
ConnectIbMutant(readonly, realtime, connects) ==
    [raised |-> ~connects,
     calls |-> << [op |-> "connect", ex |-> "", raised |-> ~connects, readonly |-> FALSE] >>
               \o (IF connects THEN << Call("reqMarketDataType", "", FALSE) >> ELSE << >>)]

\* connect_ib: ib.connect(host, port, clientId=client_id, readonly=readonly),
\* then ib.reqMarketDataType.  connects is whether the provider accepts the
\* connection; ib.connect raises otherwise.
ConnectIb(readonly, realtime, connects) ==
    [raised |-> ~connects,
     calls |-> << [op |-> "connect", ex |-> "", raised |-> ~connects,
                   readonly |-> readonly] >>
               \o (IF connects THEN << Call("reqMarketDataType", "", FALSE) >> ELSE << >>)]

\* disconnect_ib
DisconnectIb == << Call("isConnected", "", FALSE), Call("disconnect", "", FALSE) >>

\* get_current_positions, the provider calls for one short option of the
\* account: two attempts at the market data, the ticker being the same at
\* both.
PositionCalls(pos) ==
    LET usable == Gt0(pos.current_mark)
        complete == usable /\ ~IsNone(pos.current_delta)
        attempt == << Call("reqMktData", "SMART", FALSE), Call("sleep", "", FALSE) >>
    IN  << Call("qualifyContracts", "SMART", FALSE) >>
        \o attempt
        \o (IF complete THEN << >>
            ELSE IF usable THEN << Call("sleep", "", FALSE) >> \o attempt
            ELSE << Call("cancelMktData", "SMART", FALSE), Call("sleep", "", FALSE) >>
                 \o attempt)
        \o << Call("cancelMktData", "SMART", FALSE) >>

RECURSIVE AllPositionCalls(_, _)

AllPositionCalls(positions, i) ==
    IF i > Len(positions) THEN << >>
    ELSE PositionCalls(positions[i]) \o AllPositionCalls(positions, i + 1)

\* get_current_positions(ib, retry_attempts=2): the list returned, or the
\* exception ib.positions() raises.
GetCurrentPositions(positions, positions_raise) ==
    IF positions_raise
    THEN [raised |-> TRUE, positions |-> << >>, calls |-> << Call("positions", "", TRUE) >>]
    ELSE [raised |-> FALSE, positions |-> positions,
          calls |-> << Call("positions", "", FALSE) >> \o AllPositionCalls(positions, 1)]

\* run_single_check, the loop over the positions from the idx-th on: whether
\* an exception left process_position, the cache, the clock and the provider
\* calls after it.
RECURSIVE ProcessPositions(_, _, _, _, _, _, _, _)

ProcessPositions(g, t, utcToday, positions, idx, config, platform, env) ==
    IF idx > Len(positions)
    THEN [raised |-> FALSE, global_cache |-> g, t |-> t, calls |-> << >>]
    ELSE LET r == ProcessPosition(g, t, utcToday, positions[idx], config, platform, env)
         IN  IF r.raised # ""
             THEN [raised |-> TRUE, global_cache |-> r.global_cache, t |-> r.t,
                   calls |-> r.calls]
             ELSE LET rest == ProcessPositions(r.global_cache, r.t, utcToday, positions,
                                               idx + 1, config, platform, env)
                  IN  [rest EXCEPT !.calls = r.calls \o @]

\* run_single_check(args, config, monitor, live): the value returned, whether
\* connect_ib failed, the cache, the clock and the provider calls after it.
RunSingleCheck(g, t, utcToday, config, platform, market_open, realtime, connects, positions_raise, positions, env) ==
    IF ~market_open
    THEN [success |-> FALSE, connect_failed |-> FALSE, global_cache |-> g, t |-> t,
          calls |-> << >>]
    ELSE LET c == ConnectIb(READONLY_DEFAULT, realtime, connects)
             p == GetCurrentPositions(positions, positions_raise)
         IN  IF c.raised
             THEN [success |-> FALSE, connect_failed |-> TRUE, global_cache |-> g, t |-> t,
                   calls |-> c.calls]
             ELSE IF p.raised
             THEN [success |-> FALSE, connect_failed |-> FALSE, global_cache |-> g, t |-> t,
                   calls |-> c.calls \o p.calls \o DisconnectIb]
             ELSE IF p.positions = << >>
             THEN [success |-> TRUE, connect_failed |-> FALSE, global_cache |-> g, t |-> t,
                   calls |-> c.calls \o p.calls \o DisconnectIb]
             ELSE LET r == ProcessPositions(g, t, utcToday, p.positions, 1, config,
                                            platform, env)
                  IN  [success |-> ~r.raised, connect_failed |-> FALSE,
                       global_cache |-> IF r.raised THEN r.global_cache
                                        ELSE GetCache(r.global_cache, OptionCacheTtl),
                       t |-> r.t,
                       calls |-> c.calls \o p.calls \o r.calls \o DisconnectIb]

----------------------------------------------------------------------------
(* The monitor: main() of roll_monitor_live.py, from the initial connection  *)
(* through the polling loop.  The clock of the model stops at MaxClock, an   *)
(* instant later than every TTL after the first pass; the loop goes on.      *)

MaxClock == 120

\* --interval, default 60, and the interval used while the market is closed
CheckInterval == 60

ClosedInterval == 1800

ClockAfter(t, d) == IF t + d > MaxClock THEN MaxClock ELSE t + d

\* The statistics of the cache are counted up to StatsCap in this
\* specification, which follows the entries of the cache and not its counters.
StatsCap == 4

CapStats(g) ==
    IF IsNone(g) THEN g
    ELSE [g EXCEPT !.stats = [c \in DOMAIN g.stats |->
                                 IF g.stats[c] > StatsCap THEN StatsCap ELSE g.stats[c]]]

\* The account: no short option, or one ready to roll.
AccountPositions == {<< >>, << BatchPosition("20260103", Num(4)) >>}

\* The provider during a pass: everything asked for is answered.
MonitorEnv ==
    [log_opens |-> TRUE, analysis |-> "returns",
     market |-> [stock |-> StockWorks, expiries |-> ExpiryFound, chain |-> ChainListed,
                 quotes |-> [strike \in ChainStrikes |-> Works(TickerMid)], secs |-> 3]]

InitMonitor ==
    /\ now = 0
    /\ global_cache = None
    /\ putAt = EmptyDict
    /\ lastGet = NoGet
    /\ lastOp = [op |-> "init"]
    /\ today = 0
    /\ ret = None
    /\ ibLog = << >>
    /\ fetched = EmptyDict
    /\ callLog = << >>
    /\ batch = [phase |-> "idle"]
    /\ threads = << >>
    /\ heap = << >>
    /\ \E once \in BOOLEAN :
          monitor = [pc |-> "start", once |-> once, stop_requested |-> FALSE,
                     connect_failed |-> FALSE, checks |-> "none"]
    /\ alarm = << >>

\* main, lines 292-318: the initial connection and the first fetch of the
\* positions; any exception there ends main.
initial_connection(realtime, connects, positions_raise, positions) ==
    /\ monitor.pc = "start"
    /\ \E c \in {ConnectIb(READONLY_DEFAULT, realtime, connects)},
          p \in {GetCurrentPositions(positions, positions_raise)} :
          /\ ibLog' = IF c.raised THEN c.calls
                      ELSE IF p.raised THEN c.calls \o p.calls
                      ELSE c.calls \o p.calls \o DisconnectIb
          /\ monitor' = [monitor EXCEPT
                            !.pc = IF c.raised \/ p.raised THEN "terminated" ELSE "loop",
                            !.connect_failed = c.raised]
    /\ lastOp' = [op |-> "initial_connection"]
    /\ UNCHANGED <<now, cacheVars, today, ret, fetched, rollVars, batchVars, threadVars,
                   heap, alarm>>

\* main, lines 341-355: the top of "while True".
start_iteration ==
    /\ monitor.pc = "loop"
    /\ monitor' = [monitor EXCEPT !.pc = "checking"]
    /\ lastOp' = [op |-> "start_iteration"]
    /\ UNCHANGED <<now, cacheVars, fetchVars, rollVars, batchVars, threadVars, heap, alarm>>

\* main, line 356: success = run_single_check(args, config, monitor, live).
run_single_check(market_open, realtime, connects, positions_raise, positions) ==
    /\ monitor.pc = "checking"
    /\ \E r \in {RunSingleCheck(global_cache, now, today, BatchConfig, "posix", market_open,
                                 realtime, connects, positions_raise, positions,
                                 MonitorEnv)} :
          /\ global_cache' = CapStats(r.global_cache)
          /\ now' = ClockAfter(r.t, 0)
          /\ ibLog' = r.calls
          /\ monitor' = [monitor EXCEPT
                            !.pc = "checked",
                            !.connect_failed = r.connect_failed,
                            !.checks = IF r.success THEN "succeeded" ELSE "failed"]
    /\ lastOp' = [op |-> "run_single_check"]
    /\ UNCHANGED <<putAt, lastGet, today, ret, fetched, rollVars, batchVars, threadVars,
                   heap, alarm>>

\* main, lines 369-371: --once ends the loop after the first check.
after_check ==
    /\ monitor.pc = "checked"
    /\ monitor' = [monitor EXCEPT !.pc = IF monitor.once THEN "terminated" ELSE "countdown"]
    /\ now' = IF monitor.once THEN ClockAfter(now, 3) ELSE now
    /\ lastOp' = [op |-> "after_check"]
    /\ UNCHANGED <<cacheVars, fetchVars, rollVars, batchVars, threadVars, heap, alarm>>

\* main, lines 373-401: the countdown to the next check, one second at a
\* time, ended by 'q' or Ctrl+C.  stop is whether the user asks to stop during
\* this countdown.
countdown(market_open, stop) ==
    /\ monitor.pc = "countdown"
    /\ IF stop
       THEN /\ monitor' = [monitor EXCEPT !.pc = "terminated", !.stop_requested = TRUE]
            /\ now' = now
       ELSE /\ monitor' = [monitor EXCEPT !.pc = "loop"]
            /\ now' = ClockAfter(now, IF market_open THEN CheckInterval ELSE ClosedInterval)
    /\ lastOp' = [op |-> "countdown"]
    /\ UNCHANGED <<cacheVars, fetchVars, rollVars, batchVars, threadVars, heap, alarm>>

ProgramSteps ==
    \/ \E realtime \in BOOLEAN, connects \in BOOLEAN, positions_raise \in BOOLEAN,
          positions \in AccountPositions :
          initial_connection(realtime, connects, positions_raise, positions)
    \/ start_iteration
    \/ \E market_open \in BOOLEAN, realtime \in BOOLEAN, connects \in BOOLEAN,
          positions_raise \in BOOLEAN, positions \in AccountPositions :
          run_single_check(market_open, realtime, connects, positions_raise, positions)
    \/ after_check
    \/ \E market_open \in BOOLEAN, stop \in BOOLEAN : countdown(market_open, stop)

NextMonitor == ProgramSteps

\* The process keeps running: a step of main that can be taken is taken.
SpecMonitor == InitMonitor /\ [][NextMonitor]_vars /\ WF_vars(ProgramSteps)

\* The keys a pass of the monitor stores quotes under.
MonitorKeys ==
    {MakeKey("XYZ", "STOCK", 0, "STOCK")}
    \cup {MakeKey("XYZ", expiry, strike, "C") :
             expiry \in {"20260131", "20260205", "20260312"}, strike \in ChainStrikes}

\* The map holds an entry under key that is older than the TTL.
HoldsExpired(key) ==
    /\ ~IsNone(global_cache)
    /\ key \in DOMAIN global_cache.cache
    /\ IsExpired(global_cache, global_cache.cache[key], now)

Terminated == monitor.pc = "terminated"

\* C24, as stated: expired entries do not accumulate.  While the monitor
\* runs, an entry older than the TTL is eventually removed from the map, by a
\* get on its key or by the sweep, even when its key is never looked up again.
C24_ExpiredEventuallyRemoved ==
    \A key \in MonitorKeys : HoldsExpired(key) ~> (~HoldsExpired(key) \/ Terminated)

\* The ib calls that place, modify or cancel an order.
OrderCalls ==
    {"placeOrder", "cancelOrder", "reqGlobalCancel", "exerciseOptions", "bracketOrder",
     "whatIfOrder"}

\* C25: the monitor is read-only.  No call it makes at the broker places,
\* modifies or cancels an order, and every connection it opens is opened with
\* readonly=True.
C25_ReadOnly ==
    \A i \in DOMAIN ibLog :
        /\ ibLog[i].op \notin OrderCalls
        /\ ibLog[i].op = "connect" => ibLog[i].readonly

\* A pass that connected, fetched the positions, evaluated one down to the
\* option quotes and disconnected.
C25_Witness ==
    /\ lastOp.op = "run_single_check"
    /\ monitor.checks = "succeeded"
    /\ ibLog # << >>
    /\ ibLog[1].op = "connect"
    /\ ibLog[1].readonly
    /\ \E i \in DOMAIN ibLog : ibLog[i].op = "positions"
    /\ \E i \in DOMAIN ibLog : ibLog[i].op = "reqContractDetails"
    /\ \E i \in DOMAIN ibLog : ibLog[i].op = "reqMktData"
    /\ \E i \in DOMAIN ibLog : ibLog[i].op = "cancelMktData"
    /\ ibLog[Len(ibLog)].op = "disconnect"

\* The connection to the provider failed, the monitor was not started with
\* --once and the user has not asked to stop.
ConnectionFailed ==
    monitor.connect_failed /\ ~monitor.once /\ ~monitor.stop_requested

\* C26, as stated: no failure of the provider connection is fatal.  After a
\* failed connection, the initial one or one of a later cycle, the next
\* check is eventually run unless the user asks to stop.
C26_NextCheckEventuallyRuns ==
    ConnectionFailed ~> (monitor.pc = "checking" \/ monitor.stop_requested)

\* The same for the connections of the polling loop only: this part holds.
C26_InTheLoop ==
    (ConnectionFailed /\ monitor.pc = "checked")
        ~> (monitor.pc = "checking" \/ monitor.stop_requested)

\* The safety half of C26: main ends only on --once or on the user's request.
C26_EndsOnRequestOnly ==
    Terminated => (monitor.once \/ monitor.stop_requested)

----------------------------------------------------------------------------
(* safe_mark on its own: every ticker whose four prices are absent, NaN, the *)
(* -1 the provider reports for "no quote", zero, or one of the whole-dollar  *)
(* prices up to MaxPrice.  Whole dollars keep the midpoint exact in the half *)
(* dollars of the model.                                                     *)

MaxPrice == 3

PriceValues == {None, NaN, Num(0 - Dollar), Num(0)} \cup {Num(d * Dollar) : d \in 1..MaxPrice}

MarkTickers ==
    {[bid |-> b, ask |-> a, last |-> l, close |-> c, modelGreeks |-> None] :
        b \in PriceValues, a \in PriceValues, l \in PriceValues, c \in PriceValues}

InitMark ==
    /\ now = 0
    /\ global_cache = None
    /\ putAt = EmptyDict
    /\ lastGet = NoGet
    /\ lastOp \in {[op |-> "ticker", tk |-> tk] : tk \in MarkTickers}
    /\ today = 0
    /\ ret = None
    /\ ibLog = << >>
    /\ fetched = EmptyDict
    /\ callLog = << >>
    /\ batch = [phase |-> "idle"]
    /\ threads = << >>
    /\ heap = << >>
    /\ monitor = << >>
    /\ alarm = << >>

call_safe_mark(tk) ==
    /\ lastOp = [op |-> "ticker", tk |-> tk]
    /\ ret' = safe_mark(tk)
    /\ lastOp' = [op |-> "safe_mark", tk |-> tk]
    /\ UNCHANGED <<now, cacheVars, today, ibLog, fetched, rollVars, batchVars, threadVars,
                   procVars>>

NextMark == \E tk \in MarkTickers : call_safe_mark(tk)

SpecMark == InitMark /\ [][NextMark]_vars

\* The prices of the ticker in the order of the fallback.
FallbackOrder(tk) == << tk.bid, tk.ask, tk.last, tk.close >>

\* Bid and ask are both numbers with 0 < bid <= ask.
TwoSided(tk) ==
    /\ IsNum(tk.bid) /\ IsNum(tk.ask)
    /\ 0 < tk.bid.v /\ tk.bid.v <= tk.ask.v

\* The positions of the fallback order that hold a strictly positive number.
PositiveAt(tk) == {i \in 1..4 : IsNum(FallbackOrder(tk)[i]) /\ FallbackOrder(tk)[i].v > 0}

\* C27: safe_mark returns the midpoint (bid + ask) / 2 when bid and ask are
\* both present and 0 < bid <= ask; otherwise the first of bid, ask, last,
\* close that is present and strictly positive; otherwise None.  The result
\* is None or strictly positive.
C27_SafeMark ==
    lastOp.op = "safe_mark" =>
        LET tk == lastOp.tk
            pos == PositiveAt(tk)
        IN  /\ TwoSided(tk) => IsNum(ret) /\ 2 * ret.v = tk.bid.v + tk.ask.v
            /\ ~TwoSided(tk) /\ pos # {} =>
                   ret = FallbackOrder(tk)[CHOOSE i \in pos : \A j \in pos : i <= j]
            /\ ~TwoSided(tk) /\ pos = {} => ret = None
            /\ IsNone(ret) \/ (IsNum(ret) /\ ret.v > 0)

\* A midpoint strictly between bid and ask has been returned.
C27_Witness ==
    /\ lastOp.op = "safe_mark"
    /\ TwoSided(lastOp.tk)
    /\ lastOp.tk.bid.v < lastOp.tk.ask.v
    /\ IsNum(ret) /\ lastOp.tk.bid.v < ret.v /\ ret.v < lastOp.tk.ask.v

\* The fallback has gone past a bid of -1 and a NaN ask to the last trade.
C27_WitnessFallback ==
    /\ lastOp.op = "safe_mark"
    /\ lastOp.tk.bid = Num(0 - Dollar) /\ lastOp.tk.ask = NaN
    /\ ret = lastOp.tk.last /\ IsNum(ret)

\* Nothing usable: None has been returned for a ticker with a crossed quote.
C27_WitnessNone ==
    /\ lastOp.op = "safe_mark"
    /\ IsNum(lastOp.tk.bid) /\ IsNum(lastOp.tk.ask) /\ lastOp.tk.ask.v < lastOp.tk.bid.v
    /\ ret = None

----------------------------------------------------------------------------
(* dte on its own: the clock is an instant in seconds from                   *)
(* 2026-01-01T00:00:00Z, the machine has a local UTC offset, and dte is      *)
(* called with each date string of the calendar.                             *)

SecondsPerDay == 86400

MaxQuarters == 11

\* The instants tried: every quarter of a day up to MaxQuarters quarters.
Instants == {q * (SecondsPerDay \div 4) : q \in 0..MaxQuarters}

\* The UTC offsets of the machine, in seconds: UTC-6, UTC and UTC+9.
UtcOffsets == {0 - 6 * 3600, 0, 9 * 3600}

\* datetime.now().date(): the date of the machine's local zone.
UtcNowDateMutant(t, utcoffset) == (t + utcoffset) \div SecondsPerDay

\* datetime.now(timezone.utc).date(), as a day number: the local zone of the
\* machine plays no part.
UtcNowDate(t, utcoffset) == t \div SecondsPerDay

InitDte ==
    /\ now \in Instants
    /\ global_cache = None
    /\ putAt = EmptyDict
    /\ lastGet = NoGet
    /\ lastOp \in {[op |-> "date", yyyymmdd |-> d, utcoffset |-> z] :
                     d \in DateStrings, z \in UtcOffsets}
    /\ today = 0
    /\ ret = None
    /\ ibLog = << >>
    /\ fetched = EmptyDict
    /\ callLog = << >>
    /\ batch = [phase |-> "idle"]
    /\ threads = << >>
    /\ heap = << >>
    /\ monitor = << >>
    /\ alarm = << >>

call_dte(yyyymmdd, utcoffset) ==
    /\ lastOp = [op |-> "date", yyyymmdd |-> yyyymmdd, utcoffset |-> utcoffset]
    /\ today' = UtcNowDate(now, utcoffset)
    /\ ret' = Num(dte(yyyymmdd, UtcNowDate(now, utcoffset)))
    /\ lastOp' = [op |-> "dte", yyyymmdd |-> yyyymmdd, utcoffset |-> utcoffset]
    /\ UNCHANGED <<now, cacheVars, ibLog, fetched, rollVars, batchVars, threadVars, procVars>>

NextDte == \E d \in DateStrings, z \in UtcOffsets : call_dte(d, z)

SpecDte == InitDte /\ [][NextDte]_vars

\* The month and the day of each date string of the calendar, all of 2026.
MonthDay ==
    {<<"20260101", 1, 1>>, <<"20260102", 1, 2>>, <<"20260103", 1, 3>>,
     <<"20260111", 1, 11>>, <<"20260115", 1, 15>>,
     <<"20260121", 1, 21>>, <<"20260131", 1, 31>>, <<"20260205", 2, 5>>, <<"20260210", 2, 10>>,
     <<"20260228", 2, 28>>, <<"20260302", 3, 2>>, <<"20260312", 3, 12>>}

\* The lengths of the months of 2026.
MonthLengths == <<31, 28, 31, 30, 31, 30, 31, 31, 30, 31, 30, 31>>

RECURSIVE DaysBefore(_)

\* The days of 2026 before the first of month m.
DaysBefore(m) == IF m = 1 THEN 0 ELSE MonthLengths[m - 1] + DaysBefore(m - 1)

\* The days from 2026-01-01 to the date, counted on the civil calendar.
CivilDay(yyyymmdd) ==
    LET c == CHOOSE x \in MonthDay : x[1] = yyyymmdd
    IN  DaysBefore(c[2]) + c[3] - 1

\* The day of the instant in UTC, counted from 2026-01-01.
UtcDay == now \div SecondsPerDay

\* C28: dte(d) is the calendar-day difference between the date d and the
\* current UTC date: 0 for today's date, positive for a later date, negative
\* for an earlier one.
C28_DteIsDayDifference ==
    lastOp.op = "dte" =>
        /\ ret = Num(CivilDay(lastOp.yyyymmdd) - UtcDay)
        /\ CivilDay(lastOp.yyyymmdd) = UtcDay => ret.v = 0
        /\ CivilDay(lastOp.yyyymmdd) > UtcDay => ret.v > 0
        /\ CivilDay(lastOp.yyyymmdd) < UtcDay => ret.v < 0

\* dte of the UTC date has been taken on a machine whose local date is the
\* day before, and is 0.
C28_Witness ==
    /\ lastOp.op = "dte"
    /\ CivilDay(lastOp.yyyymmdd) = UtcDay
    /\ (now + lastOp.utcoffset) \div SecondsPerDay = UtcDay - 1
    /\ ret = Num(0)

\* dte of an earlier date has been taken, and is negative.
C28_WitnessEarlier ==
    /\ lastOp.op = "dte"
    /\ CivilDay(lastOp.yyyymmdd) < UtcDay
    /\ ret.v < 0

\* dte of a date in a later month has been taken, and is positive.
C28_WitnessLater ==
    /\ lastOp.op = "dte"
    /\ lastOp.yyyymmdd = "20260302"
    /\ UtcDay = 2
    /\ ret = Num(58)

----------------------------------------------------------------------------
(* process_position step by step, with its SIGALRM timer.  The analysis is   *)
(* find_roll_options, followed through the provider calls it waits in: the   *)
(* stock price, the expiry lookup, the quote of the same strike, the chain   *)
(* request and the quotes of the sample.  Every one of these waits is inside *)
(* a try block of the fetch code whose handler is "except Exception"; the    *)
(* code between them is not.  The handler of the alarm raises TimeoutError   *)
(* at the point the program has reached when the signal arrives.             *)

AlarmSeconds == 150

\* The sample strikes fetched by the sequential loop.
SampleSize == 2

\* The seconds one provider call may take: served at once, slow, or hung.
WaitTimes == {0, 50, 100, 200}

\* The attempts get_stock_price makes: NASDAQ, NYSE, SMART, then the last resort.
StockAttempts == 4

\* What find_roll_options does with the position before any fetch.
AnalysisKinds == {"not_ready", "skip_expiring", "missing_data", "fetch"}

Idle ==
    [pc |-> "idle", stage |-> "", attempt |-> 0, k |-> 0, armed |-> FALSE, deadline |-> 0,
     stage_start |-> 0, total_start |-> 0, got |-> FALSE, fired |-> FALSE,
     swallowed_in |-> "", result |-> ""]

InitAlarm ==
    /\ now = 0
    /\ global_cache = None
    /\ putAt = EmptyDict
    /\ lastGet = NoGet
    /\ lastOp = [op |-> "init"]
    /\ today = 0
    /\ ret = None
    /\ ibLog = << >>
    /\ fetched = EmptyDict
    /\ callLog = << >>
    /\ batch = [phase |-> "idle"]
    /\ threads = << >>
    /\ heap = << >>
    /\ monitor = << >>
    /\ alarm = Idle

AlarmFrame == UNCHANGED <<cacheVars, fetchVars, rollVars, batchVars, threadVars, heap, monitor>>

\* The signal is pending: the timer has run out and the handler has not run.
SignalPending == alarm.armed /\ now >= alarm.deadline

\* The timer runs out during a wait of d seconds that starts now.
FiresDuring(d) == alarm.armed /\ now + d > alarm.deadline

\* A wait inside a try block with "except Exception": if the timer runs out
\* during it, the handler raises TimeoutError there, the except clause of
\* the fetch code catches it and the attempt counts as failed; the timer, a
\* one-shot, is spent.
GuardedWait(d, a) ==
    IF FiresDuring(d)
    THEN [a EXCEPT !.armed = FALSE, !.fired = TRUE, !.swallowed_in = alarm.stage]
    ELSE a

ClockAfterWait(d) == IF FiresDuring(d) THEN alarm.deadline ELSE now + d

Succeeds(d, ok) == ok /\ ~FiresDuring(d)

\* process_position up to the call of find_roll_options: signal.alarm(150).
arm_alarm(kind) ==
    /\ alarm.pc = "idle"
    /\ alarm' = [Idle EXCEPT !.pc = "analysis", !.armed = TRUE,
                             !.deadline = now + AlarmSeconds,
                             !.stage = IF kind = "fetch" THEN "stock" ELSE "compute",
                             !.attempt = 1,
                             !.result = IF kind = "fetch" THEN "" ELSE kind]
    /\ lastOp' = [op |-> "arm_alarm", kind |-> kind]
    /\ UNCHANGED now
    /\ AlarmFrame

\* get_stock_price: one attempt on one venue.  The price is wanted but not
\* needed: after the last attempt the analysis goes on without it.
stock_attempt(d, ok) ==
    /\ alarm.pc = "analysis" /\ alarm.stage = "stock" /\ ~SignalPending
    /\ now' = ClockAfterWait(d)
    /\ alarm' = GuardedWait(d,
                    IF Succeeds(d, ok) \/ alarm.attempt = StockAttempts
                    THEN [alarm EXCEPT !.stage = "expiry", !.attempt = 1,
                                       !.stage_start = ClockAfterWait(d)]
                    ELSE [alarm EXCEPT !.attempt = @ + 1])
    /\ lastOp' = [op |-> "stock_attempt", d |-> d, ok |-> ok]
    /\ AlarmFrame

\* get_next_weekly_expiry: the ceiling check and one reqContractDetails.
\* Without an expiry find_roll_options returns the no_expiry error.
expiry_attempt(d, ok) ==
    /\ alarm.pc = "analysis" /\ alarm.stage = "expiry" /\ ~SignalPending
    /\ IF now - alarm.stage_start > ExpiryTimeout
       THEN /\ alarm' = [alarm EXCEPT !.stage = "compute", !.result = "error"]
            /\ UNCHANGED now
       ELSE /\ now' = ClockAfterWait(d)
            /\ alarm' = GuardedWait(d,
                            IF Succeeds(d, ok)
                            THEN [alarm EXCEPT !.stage = "same_strike", !.attempt = 1]
                            ELSE IF alarm.attempt = Len(FALLBACK_EXCHANGES)
                            THEN [alarm EXCEPT !.stage = "compute", !.result = "error"]
                            ELSE [alarm EXCEPT !.attempt = @ + 1])
    /\ lastOp' = [op |-> "expiry_attempt", d |-> d, ok |-> ok]
    /\ AlarmFrame

\* get_option_quote for the strike of the position: one venue.
same_strike_attempt(d, ok) ==
    /\ alarm.pc = "analysis" /\ alarm.stage = "same_strike" /\ ~SignalPending
    /\ now' = ClockAfterWait(d)
    /\ alarm' = GuardedWait(d,
                    IF Succeeds(d, ok) \/ alarm.attempt = Len(FALLBACK_EXCHANGES)
                    THEN [alarm EXCEPT !.stage = "chain", !.attempt = 1,
                                       !.got = Succeeds(d, ok),
                                       !.total_start = ClockAfterWait(d)]
                    ELSE [alarm EXCEPT !.attempt = @ + 1])
    /\ lastOp' = [op |-> "same_strike_attempt", d |-> d, ok |-> ok]
    /\ AlarmFrame

\* find_strikes_by_delta: the ceiling check and the chain request of one venue.
chain_attempt(d, ok) ==
    /\ alarm.pc = "analysis" /\ alarm.stage = "chain" /\ ~SignalPending
    /\ IF now - alarm.total_start > MaxTotalTime
       THEN /\ alarm' = [alarm EXCEPT !.stage = "compute"]
            /\ UNCHANGED now
       ELSE /\ now' = ClockAfterWait(d)
            /\ alarm' = GuardedWait(d,
                            IF Succeeds(d, ok)
                            THEN [alarm EXCEPT !.stage = "quotes", !.k = 1,
                                               !.stage_start = ClockAfterWait(d)]
                            ELSE IF alarm.attempt = Len(FALLBACK_EXCHANGES)
                            THEN [alarm EXCEPT !.stage = "compute"]
                            ELSE [alarm EXCEPT !.attempt = @ + 1])
    /\ lastOp' = [op |-> "chain_attempt", d |-> d, ok |-> ok]
    /\ AlarmFrame

\* find_strikes_by_delta, the sequential loop: the ceiling check and
\* get_option_quote for the k-th strike of the sample, both venues tried in
\* turn (d is the time of the whole call).  After the loop the venue of the
\* chain is left if no quote was obtained from it.
quote_attempt(d, ok) ==
    /\ alarm.pc = "analysis" /\ alarm.stage = "quotes" /\ ~SignalPending
    /\ LET over == now - alarm.stage_start > MaxDuration
           last == over \/ alarm.k = SampleSize
           got == alarm.got \/ (~over /\ Succeeds(d, ok))
           after == IF ~last THEN [alarm EXCEPT !.k = @ + 1, !.got = got]
                    ELSE IF got \/ alarm.attempt = Len(FALLBACK_EXCHANGES)
                    THEN [alarm EXCEPT !.stage = "compute", !.got = got]
                    ELSE [alarm EXCEPT !.stage = "chain", !.attempt = @ + 1, !.k = 0]
       IN  IF over
           THEN /\ alarm' = after
                /\ UNCHANGED now
           ELSE /\ now' = ClockAfterWait(d)
                /\ alarm' = GuardedWait(d, after)
    /\ lastOp' = [op |-> "quote_attempt", d |-> d, ok |-> ok]
    /\ AlarmFrame

\* The code of the analysis outside the try blocks of the fetch code, and
\* the end of process_position: if the signal arrives here, TimeoutError
\* reaches the except clause of process_position; otherwise find_roll_options
\* returns, signal.alarm(0) disarms the timer and the result is classified.
return_from_analysis(profitable) ==
    /\ alarm.pc = "analysis"
    /\ alarm.stage = "compute" \/ SignalPending
    /\ alarm' = [alarm EXCEPT
                    !.pc = "returned",
                    !.armed = FALSE,
                    !.fired = @ \/ SignalPending,
                    !.result = IF SignalPending THEN "exception"
                               ELSE IF alarm.result = "not_ready" THEN "not_ready"
                               ELSE IF alarm.result = "skip_expiring" THEN "skip_expiring"
                               ELSE IF alarm.result \in {"missing_data", "error"} THEN "error"
                               ELSE IF alarm.got /\ profitable THEN "options_found"
                               ELSE "no_options"]
    /\ lastOp' = [op |-> "return_from_analysis", profitable |-> profitable]
    /\ UNCHANGED now
    /\ AlarmFrame

NextAlarm ==
    \/ \E kind \in AnalysisKinds : arm_alarm(kind)
    \/ \E d \in WaitTimes, ok \in BOOLEAN :
          \/ stock_attempt(d, ok)
          \/ expiry_attempt(d, ok)
          \/ same_strike_attempt(d, ok)
          \/ chain_attempt(d, ok)
          \/ quote_attempt(d, ok)
    \/ \E profitable \in BOOLEAN : return_from_analysis(profitable)

SpecAlarm == InitAlarm /\ [][NextAlarm]_vars

\* The analysis does not run past the deadline of the timer.
C29_AbortedAtTheDeadline == alarm.pc = "analysis" => now <= alarm.deadline

\* Once the timer has run out, process_position returns ('exception', None).
C29_ReturnsException == (alarm.pc = "returned" /\ alarm.fired) => alarm.result = "exception"

\* No alarm stays armed after process_position has returned.
C29_NoAlarmLeft == alarm.pc = "returned" => ~alarm.armed

\* C29: if find_roll_options is still running 150 seconds after
\* process_position armed the alarm, the analysis is aborted at that point
\* and process_position returns ('exception', None), wherever inside the
\* fetch and sampling code the alarm fires; no alarm stays armed after
\* process_position returns.
C29_TimeoutProtection ==
    /\ C29_AbortedAtTheDeadline
    /\ C29_ReturnsException
    /\ C29_NoAlarmLeft

\* The timer has run out between two try blocks and process_position has
\* returned ('exception', None).
C29_Propagated ==
    /\ alarm.pc = "returned" /\ alarm.fired /\ alarm.swallowed_in = ""
    /\ alarm.result = "exception"

\* The timer has run out inside get_option_quote, and process_position has
\* returned the options found later.
C29_Swallowed ==
    /\ alarm.pc = "returned" /\ alarm.swallowed_in = "quotes"
    /\ alarm.result = "options_found"
    /\ now > alarm.deadline

----------------------------------------------------------------------------
(* The label of a delta-sampled candidate on its own: opt_type of            *)
(* find_roll_options for every pair of a candidate strike and a current      *)
(* strike from $95 on in half dollars, for calls and for puts.               *)

MaxSpread == 10

LabelStrikes == {95 * Dollar + h : h \in 0..MaxSpread}

InitLabel ==
    /\ now = 0
    /\ global_cache = None
    /\ putAt = EmptyDict
    /\ lastGet = NoGet
    /\ lastOp \in {[op |-> "candidate", strike |-> s, current_strike |-> c, right |-> r] :
                     s \in LabelStrikes, c \in LabelStrikes, r \in Rights}
    /\ today = 0
    /\ ret = None
    /\ ibLog = << >>
    /\ fetched = EmptyDict
    /\ callLog = << >>
    /\ batch = [phase |-> "idle"]
    /\ threads = << >>
    /\ heap = << >>
    /\ monitor = << >>
    /\ alarm = << >>

categorize(strike, current_strike, right) ==
    /\ lastOp = [op |-> "candidate", strike |-> strike, current_strike |-> current_strike,
                 right |-> right]
    /\ ret' = OptType(strike, current_strike, right)
    /\ lastOp' = [op |-> "categorize", strike |-> strike, current_strike |-> current_strike,
                  right |-> right]
    /\ UNCHANGED <<now, cacheVars, today, ibLog, fetched, rollVars, batchVars, threadVars,
                   procVars>>

NextLabel ==
    \E s \in LabelStrikes, c \in LabelStrikes, r \in Rights : categorize(s, c, r)

SpecLabel == InitLabel /\ [][NextLabel]_vars

\* The candidate strike less the current strike of the last call, in half
\* dollars, and its absolute value.
StrikeDifference == lastOp.strike - lastOp.current_strike

AbsDifference == AbsInt(StrikeDifference)

\* The direction of the label, from the strike difference alone.
StatedDirection ==
    IF AbsDifference < Dollar THEN "Same Strike"
    ELSE IF StrikeDifference > 0 THEN "Roll Up" ELSE "Roll Down"

\* C32 as stated: the label of a delta-sampled candidate depends only on the
\* strike difference, identically for calls and puts: 'Same Strike' if
\* |candidate strike - current strike| < 1.0, otherwise 'Roll Up (+$d)' if the
\* candidate strike is above the current strike and 'Roll Down (-$d)' if it
\* is below, with d the absolute strike difference.
C32_LabelShowsDifference ==
    lastOp.op = "categorize" =>
        /\ ret.label = StatedDirection
        /\ ret.label # "Same Strike" => ret.amount * Dollar = AbsDifference

\* C32, amended: the label depends only on the strike difference,
\* identically for calls and puts: 'Same Strike' if the strikes are less than
\* 1.0 apart, otherwise 'Roll Up (+$d)' above and 'Roll Down (-$d)' below the
\* current strike, with d the absolute strike difference rounded to whole
\* dollars, a difference ending in .50 going to the even neighbour.
C32_LabelShowsRoundedDifference ==
    lastOp.op = "categorize" =>
        /\ ret.label = StatedDirection
        /\ ret.label = "Same Strike" => DOMAIN ret = {"label"}
        /\ ret.label # "Same Strike" =>
              /\ 2 * AbsInt(ret.amount * Dollar - AbsDifference) <= Dollar
              /\ 2 * AbsInt(ret.amount * Dollar - AbsDifference) = Dollar
                    => ret.amount % 2 = 0

\* A put $2.50 below the current strike has been labelled 'Roll Down (-$2)'.
C32_Witness ==
    /\ lastOp.op = "categorize"
    /\ lastOp.right = "P"
    /\ StrikeDifference = 0 - 5
    /\ ret = [label |-> "Roll Down", amount |-> 2]

\* A call $3 above the current strike has been labelled 'Roll Up (+$3)'.
C32_WitnessWhole ==
    /\ lastOp.op = "categorize"
    /\ lastOp.right = "C"
    /\ StrikeDifference = 3 * Dollar
    /\ ret = [label |-> "Roll Up", amount |-> 3]

\* A candidate half a dollar away has been labelled 'Same Strike'.
C32_WitnessSame ==
    /\ lastOp.op = "categorize"
    /\ AbsDifference = 1
    /\ ret = [label |-> "Same Strike"]

(***************************************************************************)
(* Ranking of the candidates for display: print_roll_options (display.py)  *)
(* and create_roll_opportunities_table (display_live.py).  A candidate is  *)
(* a row with its delta in hundredths and its capital ROI in percent, each *)
(* of them a number, NaN or None.                                          *)
(***************************************************************************)
MaxRows == 3

\* The sentinel the sort keys use for a missing delta distance or ROI.
MissingKey == 999

\* Deltas near the default target and near the other configured target.
RankDeltas(right) ==
    IF right = "C" THEN {Num(12), Num(29), NaN, None} ELSE {Num(-88), Num(-71), NaN, None}

RankRois == {Num(1), Num(4), NaN, None}

RankOptions(right) ==
    {[k |-> "dict", data |-> [k |-> "dict", delta |-> d], capital_roi |-> r] :
        d \in RankDeltas(right), r \in RankRois}

RankLists(right) == UNION {[1..n -> RankOptions(right)] : n \in 0..MaxRows}

\* The targets of the command line: the defaults and another pair.
RankConfigs ==
    {[k |-> "dict", target_delta_call |-> 10, target_delta_put |-> -90],
     [k |-> "dict", target_delta_call |-> 30, target_delta_put |-> -70]}

MaxRollsChoices == {0, 2}

InitRank ==
    /\ now = 0
    /\ global_cache = None
    /\ putAt = EmptyDict
    /\ lastGet = NoGet
    /\ \E r \in Rights : \E c \in RankConfigs : \E o \in RankLists(r) :
          lastOp = [op |-> "roll_info", options |-> o, right |-> r, config |-> c]
    /\ today = 0
    /\ ret = None
    /\ ibLog = << >>
    /\ fetched = EmptyDict
    /\ callLog = << >>
    /\ batch = [phase |-> "idle"]
    /\ threads = << >>
    /\ heap = << >>
    /\ monitor = << >>
    /\ alarm = << >>

\* The sort key of print_roll_options.
RoiKey(x) == IF IsNum(x.capital_roi) THEN x.capital_roi.v ELSE -MissingKey

RoiBefore(x, y) == RoiKey(x) > RoiKey(y)


\* The target of the live table and its sort key: the distance of |delta|
\* to |target| in hundredths, then the negated ROI.
TableTargetDelta(right) == IF right = "C" THEN 10 ELSE -90

delta_distance(opt, target_delta) ==
    IF IsNum(opt.data.delta)
    THEN AbsInt(AbsInt(opt.data.delta.v) - AbsInt(target_delta))
    ELSE MissingKey * 100

NegatedRoi(opt) == IF IsNum(opt.capital_roi) THEN -opt.capital_roi.v ELSE MissingKey

TableBeforeAt(x, y, target_delta) ==
    \/ delta_distance(x, target_delta) < delta_distance(y, target_delta)
    \/ /\ delta_distance(x, target_delta) = delta_distance(y, target_delta)
       /\ NegatedRoi(x) < NegatedRoi(y)

\* The order of a sort: by ROI for the printed list (key "roi"), by the
\* key of the table for the position's right otherwise.
SortsBefore(key, x, y) ==
    IF key = "roi" THEN RoiBefore(x, y) ELSE TableBeforeAt(x, y, TableTargetDelta(key))

\* sorted(seq, key): the element at index i goes behind every element that
\* sorts strictly before it and every earlier element that sorts equal.
SortedPosition(seq, i, key) ==
    1 + Cardinality({j \in DOMAIN seq :
                        \/ SortsBefore(key, seq[j], seq[i])
                        \/ /\ ~SortsBefore(key, seq[i], seq[j])
                           /\ j < i})

StableSorted(seq, key) ==
    [p \in DOMAIN seq |-> seq[CHOOSE i \in DOMAIN seq : SortedPosition(seq, i, key) = p]]

SortedOptions(options) == StableSorted(options, "roi")

TableSorted(options, right) == StableSorted(options, right)

TopRolls(sorted_options, max_rolls_per_position) ==
    IF max_rolls_per_position > 0 /\ Len(sorted_options) > max_rolls_per_position
    THEN SubSeq(sorted_options, 1, max_rolls_per_position)
    ELSE sorted_options

TableRows(options, right, max_rolls_per_position) ==
    [idx \in DOMAIN TopRolls(TableSorted(options, right), max_rolls_per_position) |->
        [star |-> idx = 1,
         option |-> TopRolls(TableSorted(options, right), max_rolls_per_position)[idx]]]

print_roll_options ==
    /\ lastOp.op = "roll_info"
    /\ ret' = SortedOptions(lastOp.options)
    /\ lastOp' = [lastOp EXCEPT !.op = "print_roll_options"]
    /\ UNCHANGED <<now, cacheVars, today, ibLog, fetched, rollVars, batchVars, threadVars,
                   procVars>>

create_roll_opportunities_table(max_rolls_per_position) ==
    /\ lastOp.op = "roll_info"
    /\ ret' = [k |-> "table",
               target_delta |-> TableTargetDelta(lastOp.right),
               rows |-> TableRows(lastOp.options, lastOp.right, max_rolls_per_position),
               max_rolls_per_position |-> max_rolls_per_position]
    /\ lastOp' = [lastOp EXCEPT !.op = "create_roll_opportunities_table"]
    /\ UNCHANGED <<now, cacheVars, today, ibLog, fetched, rollVars, batchVars, threadVars,
                   procVars>>

NextRank ==
    \/ print_roll_options
    \/ \E n \in MaxRollsChoices : create_roll_opportunities_table(n)

SpecRank == InitRank /\ [][NextRank]_vars

\* The number of times a row occurs in a list.
Occurrences(seq, x) == Cardinality({i \in DOMAIN seq : seq[i] = x})

\* The delta target the program was started with, for the position's right.
ConfiguredTarget ==
    IF lastOp.right = "C" THEN lastOp.config.target_delta_call
    ELSE lastOp.config.target_delta_put

\* The printed list holds the candidates in descending capital ROI, the
\* candidates without a valid ROI behind every candidate that has one.
C34_RoiDescending ==
    lastOp.op = "print_roll_options" =>
        /\ Len(ret) = Len(lastOp.options)
        /\ \A i \in DOMAIN ret : Occurrences(ret, ret[i]) = Occurrences(lastOp.options, ret[i])
        /\ \A n \in DOMAIN ret : \A m \in DOMAIN ret :
              n < m =>
                 /\ IsNum(ret[n].capital_roi) /\ IsNum(ret[m].capital_roi)
                       => ret[n].capital_roi.v >= ret[m].capital_roi.v
                 /\ IsNum(ret[m].capital_roi) => IsNum(ret[n].capital_roi)

\* The rows of the live table ascend in the distance of |delta| to the given
\* target and then descend in ROI, the rows without a valid delta come last,
\* and the starred row is the first one and has the least distance of all
\* the candidates.
TableRankedBy(target_delta) ==
    lastOp.op = "create_roll_opportunities_table" =>
        /\ \A n \in DOMAIN ret.rows : \A m \in DOMAIN ret.rows :
              n < m =>
                 /\ IsNum(ret.rows[m].option.data.delta) => IsNum(ret.rows[n].option.data.delta)
                 /\ IsNum(ret.rows[m].option.data.delta)
                       => delta_distance(ret.rows[n].option, target_delta)
                             <= delta_distance(ret.rows[m].option, target_delta)
                 /\ (/\ IsNum(ret.rows[m].option.data.delta)
                     /\ delta_distance(ret.rows[n].option, target_delta)
                           = delta_distance(ret.rows[m].option, target_delta)
                     /\ IsNum(ret.rows[m].option.capital_roi))
                       => /\ IsNum(ret.rows[n].option.capital_roi)
                          /\ ret.rows[n].option.capital_roi.v >= ret.rows[m].option.capital_roi.v
        /\ \A n \in DOMAIN ret.rows : ret.rows[n].star <=> n = 1
        /\ \A i \in DOMAIN lastOp.options :
              IsNum(lastOp.options[i].data.delta) =>
                 /\ ret.rows # << >>
                 /\ delta_distance(ret.rows[1].option, target_delta)
                       <= delta_distance(lastOp.options[i], target_delta)

\* The live table ranks by the distance to the target it shows in its title.
C34_TableRankedByTableTarget == TableRankedBy(TableTargetDelta(lastOp.right))

\* C34: the printed list descends in capital ROI with NaN/None ROI behind the
\* valid ones, and the live table ascends in the distance of |delta| to the
\* target delta of the program, then descends in ROI, with NaN/None deltas
\* last; the starred first row has the least delta distance.
C34_RankingNeverLetsMissingWin ==
    /\ C34_RoiDescending
    /\ TableRankedBy(ConfiguredTarget)

\* The program runs with a call target of 0.30 and the table stars the call
\* at delta 0.12 over the call at delta 0.29.
C34_StarredAwayFromTarget ==
    /\ lastOp.op = "create_roll_opportunities_table"
    /\ lastOp.right = "C"
    /\ ConfiguredTarget = 30
    /\ Len(ret.rows) = 2
    /\ ret.rows[1].option.data.delta = Num(12)
    /\ ret.rows[2].option.data.delta = Num(29)

\* A list with a NaN ROI and a None ROI has been printed behind a valid one.
C34_MissingRoiPrintedLast ==
    /\ lastOp.op = "print_roll_options"
    /\ Len(ret) = 3
    /\ lastOp.options[1].capital_roi = NaN
    /\ IsNum(ret[1].capital_roi)
    /\ ret[3].capital_roi = None

(***************************************************************************)
(* find_roll_options under the options of the config dict.  The runs start *)
(* StartOfRun seconds after a run that may have cached the stock price.    *)
(***************************************************************************)
StartOfRun == 45

\* The documented defaults of the options and one run per option that
\* differs from them in that option alone; quote_timeout in tenths of a
\* second.
DefaultOptions ==
    [dte_threshold_for_alert |-> 45, target_delta_call |-> 10, target_delta_put |-> -90,
     roll_forward_days |-> 7, dte_window |-> <<30, 60>>, quote_timeout |-> 25,
     cache_ttl_option |-> 60, cache_ttl_stock |-> 30]

OptionConfigs ==
    {DefaultOptions,
     [DefaultOptions EXCEPT !.roll_forward_days = 14],
     [DefaultOptions EXCEPT !.dte_window = <<36, 60>>],
     [DefaultOptions EXCEPT !.quote_timeout = 50],
     [DefaultOptions EXCEPT !.cache_ttl_option = 120],
     [DefaultOptions EXCEPT !.cache_ttl_stock = 90]}

OptionPositions ==
    {[k |-> "dict", symbol |-> "XYZ", strike |-> 200, expiry |-> e, right |-> r,
      contracts |-> 1, entry_credit |-> 8, current_mark |-> md[1], current_delta |-> md[2]] :
        e \in {"20260115", "20260131"}, r \in Rights,
        md \in {<< Num(4), Num(4) >>, << Num(12), Num(4) >>}}

\* The global cache of the process: none yet, or the one an earlier run left
\* with the stock price fetched at time 0.
EarlierCaches ==
    {None, GetStockPrice(None, 0, "XYZ", TRUE, StockCacheTtl, StockWorks).global_cache}

InitOptions ==
    /\ now = StartOfRun
    /\ global_cache \in EarlierCaches
    /\ putAt = EmptyDict
    /\ lastGet = NoGet
    /\ lastOp \in {[op |-> "config", position |-> p, config |-> c, market |-> m] :
                     p \in OptionPositions, c \in OptionConfigs, m \in Markets}
    /\ today = 0
    /\ ret = None
    /\ ibLog = << >>
    /\ fetched = EmptyDict
    /\ callLog = << >>
    /\ batch = [phase |-> "idle"]
    /\ threads = << >>
    /\ heap = << >>
    /\ monitor = << >>
    /\ alarm = << >>

NextOptions ==
    \E p \in OptionPositions, c \in OptionConfigs, m \in Markets :
        /\ lastOp = [op |-> "config", position |-> p, config |-> c, market |-> m]
        /\ find_roll_options(p, c, m)

SpecOptions == InitOptions /\ [][NextOptions]_vars

\* The run got as far as the lookup of the replacement expiry.
LookedUpExpiry == lastOp.op = "find_roll_options" /\ Len(callLog) >= 2

\* The expirations of a listing that the options of the run admit: inside
\* config['dte_window'] from today and at least config['roll_forward_days']
\* after the position's expiry.
ConfiguredCandidates(expiries) ==
    {e \in expiries :
        /\ lastOp.config.dte_window[1] <= Strptime(e) - today
        /\ Strptime(e) - today <= lastOp.config.dte_window[2]
        /\ Strptime(e) >= Strptime(lastOp.position.expiry) + lastOp.config.roll_forward_days}

ConfiguredTargetDate == Strptime(lastOp.position.expiry) + lastOp.config.roll_forward_days

\* The replacement expiry is selected with the run's roll-forward distance
\* and DTE window: it is the admitted expiration of a listing nearest the
\* target date, and none is selected only when no listing admits one.
ExpirySelectedAsConfigured ==
    LookedUpExpiry =>
        IF IsNone(callLog[2].ret)
        THEN \A i \in DOMAIN lastOp.market.expiries :
                ConfiguredCandidates(lastOp.market.expiries[i].expiries) = {}
        ELSE \E i \in DOMAIN lastOp.market.expiries :
                /\ callLog[2].ret.v \in ConfiguredCandidates(lastOp.market.expiries[i].expiries)
                /\ \A f \in ConfiguredCandidates(lastOp.market.expiries[i].expiries) :
                      AbsInt(Strptime(callLog[2].ret.v) - ConfiguredTargetDate)
                         <= AbsInt(Strptime(f) - ConfiguredTargetDate)

\* The stock price comes from the cache exactly when the earlier run cached
\* it no longer ago than the run's cache_ttl_stock.
StockCachedAsConfigured ==
    LookedUpExpiry =>
        (callLog[1].from = "cache" <=>
            /\ ~IsNone(lastOp.cache_before)
            /\ MakeKey("XYZ", "STOCK", 0, "STOCK") \in DOMAIN lastOp.cache_before.cache
            /\ StartOfRun - lastOp.cache_before.cache[MakeKey("XYZ", "STOCK", 0, "STOCK")].timestamp
                  <= lastOp.config.cache_ttl_stock)

\* C35: find_roll_options selects the replacement expiry with
\* config['roll_forward_days'] and config['dte_window'] and fetches and caches
\* with the run's quote_timeout, cache_ttl_option and cache_ttl_stock, so a
\* run that differs in one of these options uses the different value.
C35_HonoursConfigOptions ==
    /\ ExpirySelectedAsConfigured
    /\ StockCachedAsConfigured

\* The expiry and the cache lifetime of every run are those of the defaults.
C35_DefaultsAlways ==
    LookedUpExpiry =>
        /\ \/ IsNone(callLog[2].ret)
           \/ /\ DteWindowLow <= Strptime(callLog[2].ret.v) - today
              /\ Strptime(callLog[2].ret.v) - today <= DteWindowHigh
              /\ Strptime(callLog[2].ret.v) >= Strptime(lastOp.position.expiry) + RollForwardDays
        /\ callLog[1].from # "cache"

\* A run with roll_forward_days = 14 for a position expiring on day 30 has
\* selected the expiration on day 40, less than 14 days after the expiry.
C35_RolledSevenDays ==
    /\ LookedUpExpiry
    /\ lastOp.config.roll_forward_days = 14
    /\ lastOp.position.expiry = "20260131"
    /\ callLog[2].ret = Str("20260210")

\* A run with cache_ttl_stock = 90 has fetched the stock price anew although
\* it was cached 45 seconds before.
C35_StockRefetched ==
    /\ LookedUpExpiry
    /\ lastOp.config.cache_ttl_stock = 90
    /\ ~IsNone(lastOp.cache_before)
    /\ callLog[1].from = "provider"

(***************************************************************************)
(* process_position around find_roll_options, step by step: the analysis   *)
(* reads the UTC date at its DTE gate (options_finder.py line 346), and    *)
(* process_position reads it again when the analysis returned nothing      *)
(* (roll_monitor_live.py line 96).  The date may change in between.        *)
(***************************************************************************)
OutcomeThresholds == {9, 14}

OutcomeConfigs ==
    [dte_threshold_for_alert : OutcomeThresholds, target_delta_call : {10},
     target_delta_put : {-90}]

InitOutcome ==
    /\ now = 0
    /\ global_cache = None
    /\ putAt = EmptyDict
    /\ lastGet = NoGet
    /\ lastOp \in {[op |-> "position", position |-> p, config |-> c, market |-> m] :
                     p \in RollPositions, c \in OutcomeConfigs, m \in Markets}
    /\ today = 0
    /\ ret = None
    /\ ibLog = << >>
    /\ fetched = EmptyDict
    /\ callLog = << >>
    /\ batch = [phase |-> "idle"]
    /\ threads = << >>
    /\ heap = << >>
    /\ monitor = << >>
    /\ alarm = << >>

\* roll_info = find_roll_options(ib, pos, config)
analyse_position ==
    \E p \in RollPositions, c \in OutcomeConfigs, m \in Markets :
        /\ lastOp = [op |-> "position", position |-> p, config |-> c, market |-> m]
        /\ find_roll_options(p, c, m)

\* The UTC date changes while process_position runs.
utc_midnight ==
    /\ lastOp.op = "find_roll_options"
    /\ today < MaxToday
    /\ today' = today + 1
    /\ UNCHANGED <<now, cacheVars, lastOp, ret, ibLog, fetched, rollVars, batchVars,
                   threadVars, procVars>>

\* The rest of process_position, from "if not roll_info" on.
report_outcome ==
    /\ lastOp.op = "find_roll_options"
    /\ ret' = [result_type |-> ResultType(ret, dte(lastOp.position.expiry, today),
                                          lastOp.config),
               roll_info |-> ret]
    /\ lastOp' = [lastOp EXCEPT !.op = "process_position"]
    /\ UNCHANGED <<now, cacheVars, today, ibLog, fetched, rollVars, batchVars, threadVars,
                   procVars>>

NextOutcome ==
    \/ analyse_position
    \/ utc_midnight
    \/ report_outcome

SpecOutcome == InitOutcome /\ [][NextOutcome]_vars

OutcomeReported == lastOp.op = "process_position"

\* find_roll_options returned None at its DTE gate: nothing was fetched.
StoppedAtDteGate == OutcomeReported /\ IsNone(ret.roll_info) /\ callLog = << >>

\* find_roll_options returned None for an empty list of candidates, after the
\* replacement expiry was found and the quotes were asked for.
EndedWithoutCandidates == OutcomeReported /\ IsNone(ret.roll_info) /\ callLog # << >>

\* C36: process_position reports 'no_options' exactly when find_roll_options
\* ended with an empty candidate set, and 'not_ready' exactly when it stopped
\* at the DTE gate.
C36_OutcomesDistinguished ==
    OutcomeReported =>
        /\ ret.result_type = "no_options" <=> EndedWithoutCandidates
        /\ ret.result_type = "not_ready" <=> StoppedAtDteGate

\* The same for a call during which the UTC date does not change.
C36_DistinguishedWithinOneDay ==
    (OutcomeReported /\ today = 0) =>
        /\ ret.result_type = "no_options" <=> EndedWithoutCandidates
        /\ ret.result_type = "not_ready" <=> StoppedAtDteGate

\* A position one day above the threshold was stopped at the DTE gate and is
\* reported as 'no_options' after the date changed.
C36_GateReportedAsNoOptions ==
    /\ StoppedAtDteGate
    /\ ret.result_type = "no_options"

\* Both outcomes occur and are told apart within one day.
C36_NoOptionsReported ==
    /\ EndedWithoutCandidates
    /\ today = 0
    /\ ret.result_type = "no_options"
    /\ Len(callLog) = 4

(***************************************************************************)
(* options_finder.py: get_strike_data_parallel.  A fetch is what one call  *)
(* of fetch_quote does on a worker thread: the seconds it takes and what   *)
(* comes of it (a quote with a delta, a quote without one, None, or an     *)
(* exception).                                                             *)
(***************************************************************************)
MaxFetches == 3

\* timeout=60 of get_strike_data_parallel
ParallelTimeout == 60

FetchSecs == {2, 3, 70}

FetchKinds == {"quote", "no_delta", "none", "raises"}

FetchLists ==
    UNION {[1..n -> [kind : FetchKinds, secs : FetchSecs]] : n \in 0..MaxFetches}

\* max_workers: one worker, or the five of the call in find_strikes_by_delta.
WorkerCounts == {1, 5}

InitParallel ==
    /\ now = 0
    /\ global_cache = None
    /\ putAt = EmptyDict
    /\ lastGet = NoGet
    /\ lastOp \in {[op |-> "strikes", fetches |-> f, max_workers |-> w] :
                     f \in FetchLists, w \in WorkerCounts}
    /\ today = 0
    /\ ret = None
    /\ ibLog = << >>
    /\ fetched = EmptyDict
    /\ callLog = << >>
    /\ batch = [phase |-> "idle"]
    /\ threads = << >>
    /\ heap = << >>
    /\ monitor = << >>
    /\ alarm = << >>

\* The worker that is free first, the lowest-numbered among equals.
FirstFree(free) ==
    CHOOSE w \in DOMAIN free :
        \A v \in DOMAIN free : free[w] < free[v] \/ (free[w] = free[v] /\ w <= v)

RECURSIVE FinishTimes(_, _, _)

\* ThreadPoolExecutor: the fetches are started in the order submitted, each
\* on the worker that is free first; free[w] is the second worker w is free.
\* The result is the second each fetch from the i-th on is done.
FinishTimes(i, fetches, free) ==
    IF i > Len(fetches) THEN << >>
    ELSE << free[FirstFree(free)] + fetches[i].secs >>
         \o FinishTimes(i + 1, fetches,
                        [free EXCEPT ![FirstFree(free)] = @ + fetches[i].secs])

SubmittedTimes(fetches, max_workers) ==
    FinishTimes(1, fetches, [w \in 1..max_workers |-> 0])

\* The second the last fetch is done.
LastDone(done) ==
    IF done = << >> THEN 0
    ELSE CHOOSE t \in {done[i] : i \in DOMAIN done} : \A i \in DOMAIN done : done[i] <= t

\* The orders in which as_completed can yield the futures: by the second they
\* are done, futures done in the same second in any order.
CompletionOrders(done) ==
    {o \in [DOMAIN done -> DOMAIN done] :
        /\ \A a \in DOMAIN o : \A b \in DOMAIN o : a # b => o[a] # o[b]
        /\ \A a \in DOMAIN o : \A b \in DOMAIN o : a < b => done[o[a]] <= done[o[b]]}

\* opt_data = future.result(timeout=5) of the fetch of the i-th strike
QuoteOf(i) == [k |-> "dict", strike |-> i, delta |-> Num(10)]

RECURSIVE CollectResults(_, _, _)

\* for future in as_completed(...): the results list after the futures from
\* the n-th of the order on.  A quote without delta and None are passed
\* over, an exception of the fetch is caught.
CollectResults(n, order, fetches) ==
    IF n > Len(order) THEN << >>
    ELSE (IF fetches[order[n]].kind = "quote" THEN << QuoteOf(order[n]) >> ELSE << >>)
         \o CollectResults(n + 1, order, fetches)

\* get_strike_data_parallel: as_completed raises TimeoutError in the for
\* statement when a future is not done after timeout seconds; leaving the
\* with block waits for every worker (shutdown(wait=True)).
ParallelOutcome(fetches, done, order, timeout) ==
    IF \E i \in DOMAIN done : done[i] > timeout
    THEN [raised |-> "TimeoutError", ret |-> None, t |-> LastDone(done)]
    ELSE [raised |-> "", ret |-> CollectResults(1, order, fetches), t |-> LastDone(done)]

get_strike_data_parallel(fetches, max_workers) ==
    /\ lastOp = [op |-> "strikes", fetches |-> fetches, max_workers |-> max_workers]
    /\ \E order \in CompletionOrders(SubmittedTimes(fetches, max_workers)) :
          /\ ret' = ParallelOutcome(fetches, SubmittedTimes(fetches, max_workers), order,
                                    ParallelTimeout)
          /\ lastOp' = [op |-> "get_strike_data_parallel", fetches |-> fetches,
                        max_workers |-> max_workers,
                        done |-> SubmittedTimes(fetches, max_workers)]
          /\ now' = ParallelOutcome(fetches, SubmittedTimes(fetches, max_workers), order,
                                    ParallelTimeout).t
    /\ UNCHANGED <<cacheVars, today, ibLog, fetched, rollVars, batchVars, threadVars,
                   procVars>>

NextParallel ==
    \E f \in FetchLists, w \in WorkerCounts : get_strike_data_parallel(f, w)

SpecParallel == InitParallel /\ [][NextParallel]_vars

ParallelReturned == lastOp.op = "get_strike_data_parallel"

\* The quotes with a delta of the fetches done within the timeout.
CompletedQuotes ==
    {QuoteOf(i) : i \in {j \in DOMAIN lastOp.fetches :
                            /\ lastOp.fetches[j].kind = "quote"
                            /\ lastOp.done[j] <= ParallelTimeout}}

\* C37: get_strike_data_parallel waits at most its timeout and always returns
\* a list, which holds the quotes with a non-null delta of the fetches that
\* completed; failed and timed-out fetches are skipped and no exception
\* escapes.
C37_ReturnsListWithinTimeout ==
    ParallelReturned =>
        /\ ret.raised = ""
        /\ now <= ParallelTimeout
        /\ {ret.ret[n] : n \in DOMAIN ret.ret} = CompletedQuotes
        /\ Len(ret.ret) = Cardinality(CompletedQuotes)

\* When every fetch is done within the timeout, the list of the quotes with
\* a delta is returned within the timeout.
C37_ListWhenAllDone ==
    (ParallelReturned /\ \A i \in DOMAIN lastOp.done : lastOp.done[i] <= ParallelTimeout) =>
        /\ ret.raised = ""
        /\ now <= ParallelTimeout
        /\ {ret.ret[n] : n \in DOMAIN ret.ret} = CompletedQuotes
        /\ Len(ret.ret) = Cardinality(CompletedQuotes)

\* One fetch takes 70 s: TimeoutError leaves the function 70 s after the call,
\* and the quote the other fetch obtained is lost.
C37_TimeoutEscapes ==
    /\ ParallelReturned
    /\ ret.raised = "TimeoutError"
    /\ now = 70
    /\ CompletedQuotes # {}

\* A failed fetch and a quote without delta are skipped.
C37_FailuresSkipped ==
    /\ ParallelReturned
    /\ ret.raised = ""
    /\ Len(lastOp.fetches) = 3
    /\ lastOp.fetches[1].kind = "raises"
    /\ lastOp.fetches[2].kind = "no_delta"
    /\ ret.ret = << QuoteOf(3) >>

(***************************************************************************)
(* market_data.py: wait_for_greeks, one step per pass of its loop.  The    *)
(* clock of this specification counts milliseconds.  The ticker is filled  *)
(* by the provider: its delta is null until the millisecond 'arrives'      *)
(* (never, for -1) and non-null from then on.                              *)
(***************************************************************************)
ArrivalStep == 130

MaxArrivals == 24

DeltaArrivals == {-1} \cup {a * ArrivalStep : a \in 0..MaxArrivals}

\* timeout, in milliseconds: none, a short one, and the 2.5 and 3.0 seconds
\* of the callers.
GreeksTimeouts == {0, 600, 2500, 3000}

InitGreeks ==
    /\ now = 0
    /\ global_cache = None
    /\ putAt = EmptyDict
    /\ lastGet = NoGet
    /\ lastOp \in {[op |-> "ticker", arrives |-> a, timeout |-> t] :
                     a \in DeltaArrivals, t \in GreeksTimeouts}
    /\ today = 0
    /\ ret = None
    /\ ibLog = << >>
    /\ fetched = EmptyDict
    /\ callLog = << >>
    /\ batch = [phase |-> "idle"]
    /\ threads = << >>
    /\ heap = << >>
    /\ monitor = << >>
    /\ alarm = << >>

\* tk.modelGreeks and tk.modelGreeks.delta is not None, at millisecond t
DeltaPresent(arrives, t) == arrives >= 0 /\ arrives <= t

\* The sleep after a poll made elapsed milliseconds after the start.
PollInterval(elapsed) ==
    IF elapsed < 500 THEN 50 ELSE IF elapsed < 1500 THEN 100 ELSE 200

\* start_time = time.time(); end = start_time + timeout
call_wait_for_greeks ==
    /\ lastOp.op = "ticker"
    /\ lastOp' = [op |-> "wait_for_greeks", arrives |-> lastOp.arrives,
                  timeout |-> lastOp.timeout, pc |-> "while", start_time |-> now,
                  end |-> now + lastOp.timeout, polled |-> -1]
    /\ UNCHANGED <<now, cacheVars, today, ret, ibLog, fetched, rollVars, batchVars,
                   threadVars, procVars>>

\* One pass of the loop: the ticker is read, and the function returns True
\* or sleeps for the interval of the time elapsed.
poll_ticker ==
    /\ lastOp.op = "wait_for_greeks"
    /\ lastOp.pc = "while"
    /\ now < lastOp.end
    /\ IF DeltaPresent(lastOp.arrives, now)
       THEN /\ ret' = TRUE
            /\ lastOp' = [lastOp EXCEPT !.pc = "returned", !.polled = now]
            /\ now' = now
       ELSE /\ ret' = ret
            /\ lastOp' = [lastOp EXCEPT !.polled = now]
            /\ now' = now + PollInterval(now - lastOp.start_time)
    /\ UNCHANGED <<cacheVars, today, ibLog, fetched, rollVars, batchVars, threadVars,
                   procVars>>

\* The loop ends at the deadline: return False.
deadline_passed ==
    /\ lastOp.op = "wait_for_greeks"
    /\ lastOp.pc = "while"
    /\ ~(now < lastOp.end)
    /\ ret' = FALSE
    /\ lastOp' = [lastOp EXCEPT !.pc = "returned"]
    /\ UNCHANGED <<now, cacheVars, today, ibLog, fetched, rollVars, batchVars, threadVars,
                   procVars>>

NextGreeks ==
    \/ call_wait_for_greeks
    \/ poll_ticker
    \/ deadline_passed

SpecGreeks == InitGreeks /\ [][NextGreeks]_vars

GreeksReturned == lastOp.op = "wait_for_greeks" /\ lastOp.pc = "returned"

\* The interval of the schedule the claim gives, for a poll made elapsed
\* milliseconds after the start.
StatedInterval(elapsed) ==
    IF elapsed < 500 THEN 50 ELSE IF elapsed < 500 + 1000 THEN 100 ELSE 200

\* wait_for_greeks is never under way later than its timeout plus the polling
\* interval of its last poll.
C38_DeadlineKept ==
    lastOp.op = "wait_for_greeks" =>
        /\ now - lastOp.start_time
              <= lastOp.timeout + (IF lastOp.polled < 0 THEN 0
                                   ELSE StatedInterval(lastOp.polled - lastOp.start_time))
        /\ lastOp.pc = "while" /\ lastOp.polled >= 0 =>
              now - lastOp.polled = StatedInterval(lastOp.polled - lastOp.start_time)

\* True is returned only for a ticker whose delta is non-null.
C38_TrueOnlyWithDelta ==
    (GreeksReturned /\ ret = TRUE) => DeltaPresent(lastOp.arrives, now)

\* C38: wait_for_greeks terminates no later than its timeout plus one polling
\* interval (50 ms in the first 500 ms, 100 ms in the next 1000 ms, 200 ms
\* afterwards), and returns True if the ticker's delta is non-null when it
\* returns and False otherwise.
C38_ReturnTellsDelta ==
    /\ C38_DeadlineKept
    /\ GreeksReturned => (ret = TRUE <=> DeltaPresent(lastOp.arrives, now))

\* The delta arrived during the last sleep: False is returned for a ticker
\* that has its delta.
C38_ArrivedInLastSleep ==
    /\ GreeksReturned
    /\ lastOp.timeout = 3000
    /\ lastOp.polled = 2900
    /\ lastOp.arrives = 2990
    /\ now = 3100
    /\ ret = FALSE

\* A call with no time to wait returns False for a ticker that has its delta.
C38_NoPollAtAll ==
    /\ GreeksReturned
    /\ lastOp.timeout = 0
    /\ lastOp.arrives = 0
    /\ ret = FALSE

\* True is returned at the poll that first finds the delta.
C38_FoundAtPoll ==
    /\ GreeksReturned
    /\ ret = TRUE
    /\ lastOp.arrives = 520
    /\ now = 600

(***************************************************************************)
(* greeks_cache.py: get_cache called from several threads.  The function   *)
(* takes no lock: the test "_global_cache is None", the creation with the  *)
(* assignment, and the read of the global for the return are steps other   *)
(* threads may interleave with.  heap.objects lists the GreeksCache        *)
(* objects created; _global_cache and the values returned are references.  *)
(***************************************************************************)
MaxCalls == 2

Caller == [pc |-> "idle", got |-> None, calls |-> 0]

InitSingleton ==
    /\ now = 0
    /\ global_cache = None
    /\ putAt = EmptyDict
    /\ lastGet = NoGet
    /\ lastOp = [op |-> "init"]
    /\ today = 0
    /\ ret = None
    /\ ibLog = << >>
    /\ fetched = EmptyDict
    /\ callLog = << >>
    /\ batch = [phase |-> "idle"]
    /\ threads = [pos |-> [t \in Threads |-> Caller], returned |-> {}, stored |-> FALSE,
                  overlapped |-> FALSE]
    /\ heap = [objects |-> << >>]
    /\ monitor = << >>
    /\ alarm = << >>

\* Some other thread is inside get_cache.
OthersInside(t) == \E u \in Threads \ {t} : threads.pos[u].pc \in {"create", "return"}

\* if _global_cache is None
test_global(t) ==
    /\ threads.pos[t].pc = "idle"
    /\ threads.pos[t].calls < MaxCalls
    /\ threads' = [threads EXCEPT
                      !.pos[t].pc = IF IsNone(global_cache) THEN "create" ELSE "return",
                      !.overlapped = @ \/ OthersInside(t)]
    /\ lastOp' = [op |-> "get_cache"]
    /\ UNCHANGED <<now, cacheVars, fetchVars, rollVars, batchVars, procVars>>

\* _global_cache = GreeksCache(ttl_seconds=ttl_seconds)
create_cache(t, ttl_seconds) ==
    /\ threads.pos[t].pc = "create"
    /\ heap' = [heap EXCEPT !.objects = Append(@, NewGreeksCache(ttl_seconds))]
    /\ global_cache' = Ref(Len(heap.objects) + 1)
    /\ threads' = [threads EXCEPT !.pos[t].pc = "return"]
    /\ lastOp' = [op |-> "get_cache"]
    /\ UNCHANGED <<now, putAt, lastGet, fetchVars, rollVars, batchVars, monitor, alarm>>

\* return _global_cache
return_cache(t) ==
    /\ threads.pos[t].pc = "return"
    /\ threads' = [threads EXCEPT
                      !.pos[t] = [pc |-> "returned", got |-> global_cache, calls |-> @.calls + 1],
                      !.returned = @ \cup {global_cache}]
    /\ lastOp' = [op |-> "get_cache"]
    /\ UNCHANGED <<now, cacheVars, fetchVars, rollVars, batchVars, procVars>>

\* cache.put(...) by the caller, on the instance it was given.
put_through(t) ==
    /\ threads.pos[t].pc = "returned"
    /\ heap' = [heap EXCEPT !.objects[threads.pos[t].got.v] =
                                GreeksCachePut(@, now, ThreadKey, ThreadData)]
    /\ threads' = [threads EXCEPT !.pos[t].pc = "idle", !.stored = TRUE]
    /\ lastOp' = [op |-> "put"]
    /\ UNCHANGED <<now, cacheVars, fetchVars, rollVars, batchVars, monitor, alarm>>

NextSingleton ==
    \/ \E t \in Threads : test_global(t)
    \/ \E t \in Threads, ttl \in {StockCacheTtl, OptionCacheTtl} : create_cache(t, ttl)
    \/ \E t \in Threads : return_cache(t)
    \/ \E t \in Threads : put_through(t)

SpecSingleton == InitSingleton /\ [][NextSingleton]_vars

\* At most one GreeksCache exists, every call returned it, and an entry that
\* was put is in every instance that was returned.
OneInstance ==
    /\ Len(heap.objects) <= 1
    /\ Cardinality(threads.returned) <= 1
    /\ threads.stored =>
          \A r \in threads.returned : ThreadKey \in DOMAIN heap.objects[r.v].cache

\* C40: get_cache creates at most one GreeksCache per process and every call
\* returns that instance, also when the first calls are made concurrently
\* from several threads; no entry put through one returned instance is
\* invisible through another.
C40_SingleInstance == OneInstance

\* The same for calls of which no two were under way at the same time.
C40_SingleInstanceInSequence == ~threads.overlapped => OneInstance

\* Two threads found no cache, each created one, and each had its own
\* returned: the entry one of them put is not in the other's.
C40_TwoInstances ==
    /\ Len(heap.objects) = 2
    /\ threads.pos["t1"].got = Ref(1)
    /\ threads.pos["t2"].got = Ref(2)
    /\ threads.stored
    /\ ThreadKey \notin DOMAIN heap.objects[2].cache

\* Calls made one after the other share one instance and its entry.
C40_SharedInSequence ==
    /\ ~threads.overlapped
    /\ threads.stored
    /\ threads.pos["t1"].got = Ref(1)
    /\ threads.pos["t2"].got = Ref(1)
    /\ threads.pos["t2"].calls = MaxCalls

====
